---- MODULE Spec2Model ----
(***************************************************************************)
(* Weather updater of the Blue Flag Beaches application                    *)
(* (src/weather_updater.py): the batch update engine, its coordinate-keyed *)
(* cache file, the staleness filter and the retrying fetch.                *)
(*                                                                         *)
(* Coordinates are fixed-point integers in units of 1e-8 degree, taken     *)
(* relative to a base point (rounding to d decimals only looks at the      *)
(* fractional digits).  A cache key f"{round(lat,d)}_{round(lon,d)}" is    *)
(* the pair of the two rounded values: Python prints a float by its        *)
(* shortest round-trip representation, so two keys are the same string     *)
(* exactly when the rounded values are equal, whatever the precision they  *)
(* were rounded at.  Time is in hours.                                     *)
(***************************************************************************)
EXTENDS Integers, Sequences, FiniteSets, TLC

VARIABLES
    csv_exists,               \* whether blueflag_greece_scraped.csv is there
    registry,                 \* rows of blueflag_greece_scraped.csv with coordinates
    file,                     \* weather_cache.json on disk
    now,                      \* wall clock, hours
    SEA_TEMP_CACHE,           \* module-level grid cache of the running process
    mode,                     \* "once": the process exits after the run; "loop": continuous_update
    pc,                       \* position of update_weather_cache
    batch_size, batch_number, \* its two arguments
    locations_to_process,     \* the slice of the de-duplicated list
    sea_temp_data,            \* what fetch_greece_sea_temperature returned
    existing_weather_data,    \* what load_existing_cache returned
    locations_needing_update, \* the locations that passed the staleness filter
    worker,                   \* one future per location needing update
    new_weather_data,         \* results collected so far
    weather_data,             \* the merged mapping handed to json.dump
    http_requests,            \* history: the endpoints this run has sent a request to
    file_at_start,            \* history: the file when the run started
    call_in, call_out,        \* a single call of a function: what it is given or meets, what it gives
    seq_size, seq_next, seq_slices  \* a sequence of batch runs: size, next number, slices so far

disk == <<csv_exists, registry, file, now>>
locals == <<batch_size, batch_number, locations_to_process, sea_temp_data,
            existing_weather_data, locations_needing_update, worker,
            new_weather_data, weather_data>>
harness == <<call_in, call_out, seq_size, seq_next, seq_slices>>

vars == <<csv_exists, registry, file, now, SEA_TEMP_CACHE, mode, pc, batch_size, batch_number,
          locations_to_process, sea_temp_data, existing_weather_data,
          locations_needing_update, worker, new_weather_data, weather_data,
          http_requests, file_at_start, call_in, call_out, seq_size, seq_next, seq_slices>>

---------------------------------------------------------------------------
(* Bounds of the model *)

\* last hour the clock may reach
MaxTime == 8
\* largest batch size a run is started with
MaxBatchSize == 2
\* largest batch number a run is started with
MaxBatchNumber == 1
MaxSeqSize == 3
\* most entries in a cache handed to a lookup
MaxCacheLen == 3

\* hours the clock advances by between two runs
TickSteps == {2, 4}

---------------------------------------------------------------------------
(* Program constants *)

\* should_update_beach: freshness window in hours
FRESH_HOURS == 6
\* fetch_greece_sea_temperature: grid time to live in seconds
SEA_TTL_SECONDS == 14400
\* get_weather_data
max_retries == 3
base_delay == 2
\* ThreadPoolExecutor(max_workers=3)
max_workers == 3

---------------------------------------------------------------------------
(* Optional values: Python's None against an int *)

None == [some |-> FALSE, v |-> 0]
Some(n) == [some |-> TRUE, v |-> n]

Pow(b, e) == IF e = 0 THEN 1
             ELSE IF e = 1 THEN b
             ELSE IF e = 2 THEN b * b
             ELSE IF e = 3 THEN b * b * b
             ELSE IF e = 4 THEN b * b * b * b
             ELSE b * b * b * b * b

Min(a, b) == IF a < b THEN a ELSE b

---------------------------------------------------------------------------
(* Coordinate keys *)

\* round(x, decimals) on a fixed-point value in units of 1e-8: the nearest
\* multiple of 10^(8 - decimals), an exact tie going to the even multiple
Round(x, decimals) ==
    LET u == Pow(10, 8 - decimals)
        q == x \div u
        r == x % u
    IN  IF 2 * r < u THEN q * u
        ELSE IF 2 * r > u THEN (q + 1) * u
        ELSE IF q % 2 = 0 THEN q * u ELSE (q + 1) * u

\* f"{round(lat, decimals)}_{round(lon, decimals)}"
Key(lat, lon, decimals) == <<Round(lat, decimals), Round(lon, decimals)>>

\* line 378: the key the staleness filter looks up
PrimaryKey(loc) == Key(loc.Latitude, loc.Longitude, 6)

\* line 409: for decimals in [7, 6, 5, 4, 3]
KeyDecimals == <<7, 6, 5, 4, 3>>

KeysOf(loc) == {Key(loc.Latitude, loc.Longitude, KeyDecimals[i]) : i \in 1..Len(KeyDecimals)}

---------------------------------------------------------------------------
(* The beach registry and the batch partition *)

Loc(name, lat, lon) == [Name |-> name, Latitude |-> lat, Longitude |-> lon]

\* Alpha and AlphaTwin are two beaches at the same point; Beta is 0.0004
\* degree north of Alpha (same key at 3 decimals only); Gamma is 6e-8 degree
\* north of Alpha (same key at 6 decimals and coarser); Delta and Epsilon
\* are far from all others, Delta with a different key at every precision.
Alpha == Loc("Alpha", 0, 0)
AlphaTwin == Loc("AlphaTwin", 0, 0)
Beta == Loc("Beta", 40000, 0)
Gamma == Loc("Gamma", 6, 0)
Delta == Loc("Delta", 12345678, 7654321)
Epsilon == Loc("Epsilon", 500000, 900000)

\* registries a run may find (rows without coordinates already dropped, line 340)
RegistryA == <<Alpha, AlphaTwin, Beta, Delta>>
RegistryB == <<Gamma, Alpha, Epsilon>>
RegistryC == <<Alpha, Beta, AlphaTwin, Gamma, Delta, Beta, Epsilon>>

\* line 343: drop_duplicates(subset=['Latitude', 'Longitude']) keeps the first row
\* of every coordinate pair, in order
RECURSIVE DropDuplicates(_, _)
DropDuplicates(rows, seen) ==
    IF rows = <<>> THEN <<>>
    ELSE LET h == Head(rows)
             c == <<h.Latitude, h.Longitude>>
         IN  IF c \in seen THEN DropDuplicates(Tail(rows), seen)
             ELSE <<h>> \o DropDuplicates(Tail(rows), seen \cup {c})

unique_locations(rows) == DropDuplicates(rows, {})

\* a slice that loses its first row
ILocSkipFirst(rows, start, end) ==
    LET n == Len(rows)
        s == IF start < 0 THEN (IF start + n < 0 THEN 0 ELSE start + n) ELSE Min(start, n)
        e == IF end < 0 THEN (IF end + n < 0 THEN 0 ELSE end + n) ELSE Min(end, n)
    IN  IF s + 1 < e THEN SubSeq(rows, s + 2, e) ELSE <<>>

\* DataFrame.iloc[start:end]: a Python slice, negative bounds counting from the end
ILoc(rows, start, end) ==
    LET n == Len(rows)
        s == IF start < 0 THEN (IF start + n < 0 THEN 0 ELSE start + n) ELSE Min(start, n)
        e == IF end < 0 THEN (IF end + n < 0 THEN 0 ELSE end + n) ELSE Min(end, n)
    IN  IF s < e THEN SubSeq(rows, s + 1, e) ELSE <<>>

\* an end index one too far
EndIdxInclusive(start_idx, bs, total_locations) == Min(start_idx + bs + 1, total_locations)

\* line 350
EndIdx(start_idx, bs, total_locations) == Min(start_idx + bs, total_locations)

\* lines 347-364: the locations a run considers
LocationsToProcess(rows, bs, bn) ==
    LET u == unique_locations(rows)
    IN  IF bs.some /\ bn.some
        THEN LET start_idx == bn.v * bs.v
                 end_idx == EndIdx(start_idx, bs.v, Len(u))
             IN  ILoc(u, start_idx, end_idx)
        ELSE u

---------------------------------------------------------------------------
(* Weather records and the cache *)

\* a last_updated value: an ISO timestamp (hour t), or text that
\* datetime.fromisoformat rejects, or no such field
Iso(t) == [kind |-> "iso", t |-> t]
Garbage == [kind |-> "garbage", t |-> 0]
Missing == [kind |-> "missing", t |-> 0]

\* the empty mapping
EmptyCache == [k \in {} |-> 0]

\* lines 110-128
should_update_beach(existing_data, beach_key, t) ==
    IF beach_key \notin DOMAIN existing_data THEN TRUE
    ELSE LET last_updated == existing_data[beach_key].last_updated
         IN  IF last_updated.kind # "iso" THEN TRUE      \* except: pass
             ELSE IF t - last_updated.t < FRESH_HOURS THEN FALSE
             ELSE TRUE

\* lines 373-381: the staleness filter over the batch
RECURSIVE FilterNeeding(_, _, _)
FilterNeeding(rows, existing_data, t) ==
    IF rows = <<>> THEN <<>>
    ELSE LET rest == FilterNeeding(Tail(rows), existing_data, t)
         IN  IF should_update_beach(existing_data, PrimaryKey(Head(rows)), t)
             THEN <<Head(rows)>> \o rest
             ELSE rest

\* a merge field by field: a measurement the fetched record lacks keeps the
\* value of the loaded record
MergeFieldwise(existing, updates) ==
    [k \in DOMAIN existing \cup DOMAIN updates |->
        IF k \notin DOMAIN updates THEN existing[k]
        ELSE IF k \notin DOMAIN existing THEN updates[k]
        ELSE [f \in DOMAIN updates[k] |->
                 IF f \in {"air_temp", "wind_speed", "wind_direction", "wave_height",
                           "wave_direction", "wave_period", "sea_temp"}
                 THEN IF updates[k][f] = "N/A" THEN existing[k][f] ELSE updates[k][f]
                 ELSE updates[k][f]]]

\* a merge in which the loaded record wins over the fetched one
MergeExistingWins(existing, updates) ==
    [k \in DOMAIN existing \cup DOMAIN updates |->
        IF k \in DOMAIN existing THEN existing[k] ELSE updates[k]]

\* line 424: dict.update
Merge(existing, updates) ==
    [k \in DOMAIN existing \cup DOMAIN updates |->
        IF k \in DOMAIN updates THEN updates[k] ELSE existing[k]]

\* a load that forgets what the file holds
LoadNothing(f) == [k \in {} |-> 0]

\* the file as load_existing_cache reads it (lines 228-242): an absent or
\* unparseable file gives the empty mapping
load_existing_cache(f) == IF f.st = "valid" THEN f.data ELSE EmptyCache

ValidFile(data) == [st |-> "valid", data |-> data]
AbsentFile == [st |-> "absent", data |-> EmptyCache]
\* the file after open(cache_path, 'w') and before json.dump has finished
PartialFile == [st |-> "partial", data |-> EmptyCache]

\* the keys an observer finds in the file
FileKeys(f) == IF f.st = "valid" THEN DOMAIN f.data ELSE {}

---------------------------------------------------------------------------
(* Providers' answers *)

\* The answer to one GET: how the request ended ("200", "non200", or the
\* exception it raised: "timeout", "error" for any other requests exception,
\* "badjson" for a 200 whose body response.json() rejects) and, for each of
\* up to three fields of "current", whether it holds a number ("num"), holds
\* null ("null") or is not there ("missing").
Resp(status, a, b, c) == [status |-> status, f1 |-> a, f2 |-> b, f3 |-> c]

Raises(r) == r.status \in {"timeout", "error", "badjson"}

\* what one attempt of get_weather_data meets: the atmospheric answer, the
\* marine answer, whether the nearest grid point is within 2.0 degrees, and
\* the answer to the sea-temperature fallback request
Meets(w, m, noaa, sea) == [weather |-> w, marine |-> m, noaa |-> noaa, sea |-> sea]

Full200 == Resp("200", "num", "num", "num")
AllFine == Meets(Full200, Full200, "near", Full200)
WeatherTimeout == Meets(Resp("timeout", "missing", "missing", "missing"), Full200, "near", Full200)
MarineError == Meets(Full200, Resp("error", "missing", "missing", "missing"), "near", Full200)
WeatherDown == Meets(Resp("non200", "missing", "missing", "missing"), Full200, "far", Full200)
WeatherBadJson == Meets(Resp("badjson", "missing", "missing", "missing"), Full200, "near", Full200)
MarineTimeout == Meets(Full200, Resp("timeout", "missing", "missing", "missing"), "far", Full200)
\* an HTTP 5xx answer: a status other than 200, no exception (there is no raise_for_status)
Weather5xx == Meets(Resp("5xx", "missing", "missing", "missing"), Full200, "near", Full200)
Marine5xx == Meets(Full200, Resp("5xx", "missing", "missing", "missing"), "near", Full200)

\* what the three passes of a fetch of a run may meet: success at once,
\* success at the last pass, failure of every pass
RunMeets == { <<AllFine, AllFine, AllFine>>,
              <<WeatherTimeout, MarineError, AllFine>>,
              <<WeatherTimeout, MarineError, WeatherTimeout>> }

---------------------------------------------------------------------------
(* get_weather_data *)

\* round(current.get(k, 'N/A'), 1) if current.get(k) is not None else 'N/A'
Rounded(v) == IF v = "num" THEN "num" ELSE "N/A"
\* current.get(k, 'N/A')
Got(v) == IF v = "missing" THEN "N/A" ELSE v

\* lines 148-160
InitialInfo(loc, t) ==
    [beach_name |-> loc.Name, latitude |-> loc.Latitude, longitude |-> loc.Longitude,
     air_temp |-> "N/A", wind_speed |-> "N/A", wind_direction |-> "N/A",
     wave_height |-> "N/A", wave_direction |-> "N/A", wave_period |-> "N/A",
     sea_temp |-> "N/A", last_updated |-> Iso(t)]

\* a client without the fallback request
NoFallback(r) == "N/A"

\* lines 93-108: one request, every failure giving 'N/A'
get_sea_temp_open_meteo(r) == IF r.status = "200" /\ r.f1 = "num" THEN "num" ELSE "N/A"

\* lines 186-199: the nearest grid point, used when it is within 2.0 degrees
NoaaSeaTemp(grid, noaa) == IF grid # "None" /\ noaa = "near" THEN "num" ELSE "N/A"

\* lines 143-213: one pass of the loop body. raised: whether an exception left the
\* try block; http: the endpoints a request was sent to
Attempt(loc, grid, m, t) ==
    LET i0 == InitialInfo(loc, t)
        i1 == IF m.weather.status = "200"
              THEN [i0 EXCEPT !.air_temp = Rounded(m.weather.f1),
                              !.wind_speed = Rounded(m.weather.f2),
                              !.wind_direction = Got(m.weather.f3)]
              ELSE i0
        i2 == IF m.marine.status = "200"
              THEN [i1 EXCEPT !.wave_height = Rounded(m.marine.f1),
                              !.wave_direction = Got(m.marine.f2),
                              !.wave_period = Rounded(m.marine.f3)]
              ELSE i1
        noaa == NoaaSeaTemp(grid, m.noaa)
        sea == IF noaa = "N/A" THEN get_sea_temp_open_meteo(m.sea) ELSE noaa
    IN  IF Raises(m.weather) THEN [raised |-> TRUE, info |-> i0, http |-> {"forecast"}]
        ELSE IF Raises(m.marine)
        THEN [raised |-> TRUE, info |-> i1, http |-> {"forecast", "marine"}]
        ELSE [raised |-> FALSE, info |-> [i2 EXCEPT !.sea_temp = sea],
              http |-> IF noaa = "N/A" THEN {"forecast", "marine", "marine_sst"}
                       ELSE {"forecast", "marine"}]

\* line 139
Delay(attempt) == base_delay * Pow(2, attempt)

\* a loop that gives up one pass early
LastAttemptEarly(attempt) == attempt = max_retries - 2

\* lines 217 and 222: the attempt after which a failure is final
LastAttempt(attempt) == attempt = max_retries - 1

\* lines 135-226: the loop from pass `attempt` on. ms[k] is what pass k-1 meets.
\* ok: a record is returned (None otherwise); attempts: passes made; delays: the
\* sleeps before the retries; http: the endpoints a request was sent to
RECURSIVE RetryLoop(_, _, _, _, _, _, _)
RetryLoop(loc, grid, ms, t, attempt, delays, http) ==
    IF attempt >= max_retries
    THEN [ok |-> FALSE, info |-> InitialInfo(loc, t), attempts |-> attempt,
          delays |-> delays, http |-> http]
    ELSE LET ds == IF attempt > 0 THEN Append(delays, Delay(attempt)) ELSE delays
             a == Attempt(loc, grid, ms[attempt + 1], t)
         IN  IF ~a.raised
             THEN [ok |-> TRUE, info |-> a.info, attempts |-> attempt + 1,
                   delays |-> ds, http |-> http \cup a.http]
             ELSE IF LastAttempt(attempt)
             THEN [ok |-> FALSE, info |-> InitialInfo(loc, t), attempts |-> attempt + 1,
                   delays |-> ds, http |-> http \cup a.http]
             ELSE RetryLoop(loc, grid, ms, t, attempt + 1, ds, http \cup a.http)

get_weather_data(loc, grid, ms, t) == RetryLoop(loc, grid, ms, t, 0, <<>>, {})

---------------------------------------------------------------------------
(* fetch_greece_sea_temperature *)

EmptySeaCache == [data |-> "None", last_updated |-> None]

\* line 45-47: cached data less than 4 hours old
SeaCacheFresh(c, t) ==
    c.data # "None" /\ c.last_updated.some /\ (t - c.last_updated.v) * 3600 < SEA_TTL_SECONDS

\* a grid fetch that drops a grid it failed to refresh
FetchSeaForgets(c, t, answer) ==
    IF c.data # "None" /\ c.last_updated.some /\ (t - c.last_updated.v) * 3600 < SEA_TTL_SECONDS
    THEN [cache |-> c, data |-> c.data, http |-> {}]
    ELSE IF answer = "200"
    THEN [cache |-> [data |-> "grid", last_updated |-> Some(t)], data |-> "grid", http |-> {"noaa"}]
    ELSE [cache |-> [data |-> "None", last_updated |-> c.last_updated], data |-> "None",
          http |-> {"noaa"}]

\* a grid fetch that asks the provider whatever the age of the cached grid
FetchSeaAlways(c, t, answer) ==
    IF answer = "200"
    THEN [cache |-> [data |-> "grid", last_updated |-> Some(t)], data |-> "grid", http |-> {"noaa"}]
    ELSE [cache |-> c, data |-> c.data, http |-> {"noaa"}]

\* lines 41-91. answer: how the request for the grid ends. cache: SEA_TEMP_CACHE
\* afterwards; data: the value returned; http: the endpoints a request was sent to
fetch_greece_sea_temperature(c, t, answer) ==
    IF SeaCacheFresh(c, t) THEN [cache |-> c, data |-> c.data, http |-> {}]
    ELSE IF answer = "200"
    THEN [cache |-> [data |-> "grid", last_updated |-> Some(t)], data |-> "grid", http |-> {"noaa"}]
    ELSE [cache |-> c, data |-> c.data, http |-> {"noaa"}]

---------------------------------------------------------------------------
(* The collecting loop *)

\* a collecting loop that stores a result under its first key format only
StoreFirstKey(new, loc, result, i) ==
    LET key == Key(loc.Latitude, loc.Longitude, KeyDecimals[i])
    IN  IF key \notin DOMAIN new THEN (key :> result) @@ new ELSE new

\* lines 409-412: store the result under each key that is not taken yet
RECURSIVE StoreKeys(_, _, _, _)
StoreKeys(new, loc, result, i) ==
    IF i > Len(KeyDecimals) THEN new
    ELSE LET key == Key(loc.Latitude, loc.Longitude, KeyDecimals[i])
         IN  IF key \notin DOMAIN new
             THEN StoreKeys((key :> result) @@ new, loc, result, i + 1)
             ELSE StoreKeys(new, loc, result, i + 1)


---------------------------------------------------------------------------
(* State *)

\* a record some earlier run (or another machine) left in the file
Old(name, lat, lon, stamp) ==
    [InitialInfo(Loc(name, lat, lon), 0) EXCEPT !.air_temp = "num", !.last_updated = stamp]

\* a cache file found before the first run: a beach that left the registry, a
\* record of Alpha with an unreadable timestamp, and one of Epsilon stamped
\* in the future
SeedCache ==
    (<<77700000, 77700000>> :> Old("Legacy", 77700000, 77700000, Iso(0)))
    @@ (<<0, 0>> :> Old("Alpha", 0, 0, Garbage))
    @@ (<<500000, 900000>> :> Old("Epsilon", 500000, 900000, Iso(MaxTime + FRESH_HOURS)))

\* get_weather_data not called yet
NoCall == [ok |-> FALSE, info |-> InitialInfo(Alpha, 0), attempts |-> 0, delays |-> <<>>,
           http |-> {}]

\* no run is going on
Idle ==
    /\ pc = "idle" /\ mode = "once"
    /\ batch_size = None /\ batch_number = None
    /\ locations_to_process = <<>>
    /\ sea_temp_data = "None"
    /\ existing_weather_data = EmptyCache
    /\ locations_needing_update = <<>>
    /\ worker = <<>>
    /\ new_weather_data = EmptyCache
    /\ weather_data = EmptyCache
    /\ http_requests = {}
    /\ file_at_start = file

NoHarness ==
    /\ call_in = <<>> /\ call_out = NoCall
    /\ seq_size = 0 /\ seq_next = 0 /\ seq_slices = <<>>

\* the registry and the cache file found by the first run
InitDisks == {<<RegistryA, AbsentFile>>, <<RegistryB, AbsentFile>>,
              <<RegistryB, ValidFile(SeedCache)>>}

Init ==
    /\ csv_exists = TRUE
    /\ \E p \in InitDisks : registry = p[1] /\ file = p[2]
    /\ now = 0
    /\ SEA_TEMP_CACHE = EmptySeaCache
    /\ Idle
    /\ NoHarness

\* the arguments batch_size and batch_number of a run: both or none
BatchArgs ==
    {<<None, None>>} \cup {<<Some(b), Some(n)>> : b \in 1..MaxBatchSize, n \in 0..MaxBatchNumber}

---------------------------------------------------------------------------
(* update_weather_cache, step by step *)

\* lines 245-365: a run starts, in a new process (m = "once", lines 482-483) or
\* as a turn of continuous_update (m = "loop", line 459), and takes its slice of
\* the registry. A "once" run finds the module state of a new process.
StartRun(bs, bn, m) ==
    /\ pc = "idle"
    /\ m = "loop" => (~bs.some /\ ~bn.some)
    /\ mode' = m
    /\ batch_size' = bs /\ batch_number' = bn
    /\ locations_to_process' = IF csv_exists THEN LocationsToProcess(registry, bs, bn) ELSE <<>>
    /\ SEA_TEMP_CACHE' = IF m = "once" THEN EmptySeaCache ELSE SEA_TEMP_CACHE
    /\ file_at_start' = file
    /\ pc' = IF ~csv_exists THEN "done"                \* lines 251-253: logged, return
             ELSE IF bs.some /\ bn.some /\ locations_to_process' = <<>> THEN "done"
             ELSE "sea"
    /\ UNCHANGED <<disk, sea_temp_data, existing_weather_data, locations_needing_update,
                   worker, new_weather_data, weather_data, http_requests, call_in, call_out>>

\* line 368
FetchSea(answer) ==
    /\ pc = "sea"
    /\ LET r == fetch_greece_sea_temperature(SEA_TEMP_CACHE, now, answer)
       IN  /\ SEA_TEMP_CACHE' = r.cache
           /\ sea_temp_data' = r.data
           /\ http_requests' = http_requests \cup r.http
    /\ pc' = "load"
    /\ UNCHANGED <<disk, mode, batch_size, batch_number, locations_to_process,
                   existing_weather_data, locations_needing_update, worker,
                   new_weather_data, weather_data, file_at_start, harness>>

\* lines 392-398: the futures submitted; the pool starts the first max_workers
Submitted(n) == [i \in 1..n |-> IF i <= max_workers THEN "running" ELSE "queued"]

\* a run that goes on to the merge and the save with nothing to update
NeverNothing(needing) == FALSE

\* line 383: if not locations_needing_update
NothingToUpdate(needing) == needing = <<>>

\* lines 370-398: load the cache, filter the batch, submit the fetches
LoadFilter ==
    /\ pc = "load"
    /\ existing_weather_data' = load_existing_cache(file)
    /\ locations_needing_update' = FilterNeeding(locations_to_process, existing_weather_data', now)
    /\ IF NothingToUpdate(locations_needing_update')
       THEN pc' = "done" /\ worker' = <<>>
       ELSE pc' = "fetch" /\ worker' = Submitted(Len(locations_needing_update'))
    /\ UNCHANGED <<disk, SEA_TEMP_CACHE, mode, batch_size, batch_number,
                   locations_to_process, sea_temp_data, new_weather_data, weather_data,
                   http_requests, file_at_start, harness>>

\* the first queued future, which the pool starts when a worker gets free
NextQueued(w) ==
    IF \E j \in DOMAIN w : w[j] = "queued"
    THEN {CHOOSE j \in DOMAIN w : w[j] = "queued" /\ \A k \in DOMAIN w : w[k] = "queued" => j <= k}
    ELSE {}

\* a collecting loop that stores whatever the fetch returned
CollectAlways(new, loc, r) == StoreKeys(new, loc, r.info, 1)

\* lines 405-412: what the collecting loop does with a result
Collect(new, loc, r) == IF r.ok THEN StoreKeys(new, loc, r.info, 1) ELSE new

\* lines 402-421: the fetch of location i completes, having met ms, and the
\* collecting loop takes its result
Complete(i, ms) ==
    /\ pc = "fetch"
    /\ i \in DOMAIN worker /\ worker[i] = "running"
    /\ LET loc == locations_needing_update[i]
           r == get_weather_data(loc, sea_temp_data, ms, now)
           w == [worker EXCEPT ![i] = IF r.ok THEN "ok" ELSE "failed"]
       IN  /\ worker' = [j \in DOMAIN w |-> IF j \in NextQueued(w) THEN "running" ELSE w[j]]
           /\ new_weather_data' = Collect(new_weather_data, loc, r)
           /\ http_requests' = http_requests \cup r.http
    /\ UNCHANGED <<disk, SEA_TEMP_CACHE, mode, pc, batch_size, batch_number,
                   locations_to_process, sea_temp_data, existing_weather_data,
                   locations_needing_update, weather_data, file_at_start, harness>>

\* a collecting loop that a failed fetch ends
StopAtFailure ==
    \/ \A j \in DOMAIN worker : worker[j] \in {"ok", "failed"}
    \/ \E j \in DOMAIN worker : worker[j] = "failed"

\* lines 402-421: as_completed has yielded every future
AllCollected == \A j \in DOMAIN worker : worker[j] \in {"ok", "failed"}

\* lines 423-425
MergeStep ==
    /\ pc = "fetch" /\ AllCollected
    /\ weather_data' = Merge(existing_weather_data, new_weather_data)
    /\ pc' = "save"
    /\ UNCHANGED <<disk, SEA_TEMP_CACHE, mode, batch_size, batch_number,
                   locations_to_process, sea_temp_data, existing_weather_data,
                   locations_needing_update, worker, new_weather_data, http_requests,
                   file_at_start, harness>>

\* line 429: open(cache_path, 'w') truncates the file
SaveOpen ==
    /\ pc = "save"
    /\ file' = PartialFile
    /\ pc' = "dump"
    /\ UNCHANGED <<csv_exists, registry, now, SEA_TEMP_CACHE, mode, locals, http_requests,
                   file_at_start, harness>>

\* line 430: json.dump has written everything and the file is closed
SaveDump ==
    /\ pc = "dump"
    /\ file' = ValidFile(weather_data)
    /\ pc' = "done"
    /\ UNCHANGED <<csv_exists, registry, now, SEA_TEMP_CACHE, mode, locals, http_requests,
                   file_at_start, harness>>

Running == pc \in {"sea", "load", "fetch", "save", "dump"}

\* the process is killed during the run (a signal, the scheduler's time limit)
Crash ==
    /\ Running
    /\ pc' = "crashed"
    /\ UNCHANGED <<disk, SEA_TEMP_CACHE, mode, locals, http_requests, file_at_start, harness>>

\* the run is over: its local variables are gone, and so is the module state
\* unless continuous_update goes on in the same process
Return ==
    /\ pc \in {"done", "crashed"}
    /\ pc' = "idle" /\ mode' = "once"
    /\ SEA_TEMP_CACHE' = IF mode = "loop" /\ pc = "done" THEN SEA_TEMP_CACHE ELSE EmptySeaCache
    /\ batch_size' = None /\ batch_number' = None
    /\ locations_to_process' = <<>>
    /\ sea_temp_data' = "None"
    /\ existing_weather_data' = EmptyCache
    /\ locations_needing_update' = <<>>
    /\ worker' = <<>>
    /\ new_weather_data' = EmptyCache
    /\ weather_data' = EmptyCache
    /\ http_requests' = {}
    /\ file_at_start' = file
    /\ UNCHANGED <<disk, call_in, call_out>>

\* time passes between two runs
Tick(d) ==
    /\ pc = "idle"
    /\ now + d <= MaxTime
    /\ now' = now + d
    /\ UNCHANGED <<csv_exists, registry, file, SEA_TEMP_CACHE, mode, pc, locals, http_requests,
                   file_at_start, harness>>

SeaAnswers == {"200", "non200", "timeout"}

\* outside a sequence of batch runs
NoSeq == UNCHANGED <<seq_size, seq_next, seq_slices>>

Starts == \E a \in BatchArgs, m \in {"once", "loop"} : StartRun(a[1], a[2], m) /\ NoSeq
Seas == \E answer \in SeaAnswers : FetchSea(answer)
Completes == \E i \in 1..max_workers + 1, ms \in RunMeets : Complete(i, ms)
Ticks == \E d \in TickSteps : Tick(d)
Returns == Return /\ NoSeq

Next ==
    \/ Starts
    \/ Seas
    \/ LoadFilter
    \/ Completes
    \/ MergeStep
    \/ SaveOpen
    \/ SaveDump
    \/ Crash
    \/ Returns
    \/ Ticks

Spec == Init /\ [][Next]_vars

---------------------------------------------------------------------------
(* Properties of a run *)

Elems(seq) == {seq[i] : i \in DOMAIN seq}

\* the run went through the merge
Merged == pc \in {"save", "dump"} \/ (pc = "done" /\ worker # <<>>)

\* the run returned after writing the file
Saved == pc = "done" /\ worker # <<>>

\* rec is a record fetched for loc during this run
NewRecordOf(rec, loc) ==
    /\ rec.beach_name = loc.Name
    /\ rec.latitude = loc.Latitude /\ rec.longitude = loc.Longitude
    /\ rec.last_updated = Iso(now)

\* the entry under key k is the same in the two files (there in both, or in neither)
SameEntry(f, g, k) ==
    /\ k \in FileKeys(f) <=> k \in FileKeys(g)
    /\ k \in FileKeys(f) => f.data[k] = g.data[k]

\* C1: the merged cache holds every key of the loaded cache that is not a key
\* of the new records, with its record unchanged, and every key of the new
\* records with the new record (the update wins on a conflict).
C1_MergeUnion ==
    Merged =>
        /\ \A k \in DOMAIN existing_weather_data \ DOMAIN new_weather_data :
               k \in DOMAIN weather_data /\ weather_data[k] = existing_weather_data[k]
        /\ \A k \in DOMAIN new_weather_data :
               k \in DOMAIN weather_data /\ weather_data[k] = new_weather_data[k]

\* a merge with a conflict and with a loaded key the batch did not touch
C1_Witness ==
    /\ pc = "save"
    /\ \E k \in DOMAIN existing_weather_data \cap DOMAIN new_weather_data :
           existing_weather_data[k] # new_weather_data[k]
    /\ DOMAIN existing_weather_data \ DOMAIN new_weather_data # {}

\* C2: a key present in the cache file before a run is still present in it
\* when the run has returned, whatever the batch and however the fetches ended.
C2_KeysNeverShrink ==
    pc = "done" => FileKeys(file_at_start) \subseteq FileKeys(file)

\* a run that rewrote a file holding keys outside its batch, one fetch having failed
C2_Witness ==
    /\ Saved
    /\ FileKeys(file_at_start) \ DOMAIN new_weather_data # {}
    /\ \E j \in DOMAIN worker : worker[j] = "failed"
    /\ file # file_at_start

\* every location of the batch has a record less than 6 hours old in the file
BatchAllFresh ==
    /\ locations_to_process # <<>>
    /\ \A loc \in Elems(locations_to_process) :
           /\ PrimaryKey(loc) \in FileKeys(file_at_start)
           /\ LET stamp == file_at_start.data[PrimaryKey(loc)].last_updated
              IN  stamp.kind = "iso" /\ stamp.t <= now /\ now - stamp.t < FRESH_HOURS

\* C3: a run whose batch is entirely fresh sends no HTTP request at all and
\* leaves the cache file as it was.
C3_FreshBatchNoHttp ==
    (pc = "done" /\ BatchAllFresh) => (http_requests = {} /\ file = file_at_start)

\* C4: whenever a run is interrupted, the cache file is either the complete
\* file of before the run or the complete merged cache.
C4_AtomicWrite ==
    pc = "crashed" => (file = file_at_start \/ file = ValidFile(weather_data))

\* C6: a failed fetch does not end the batch: when the run has returned every
\* location needing update has been fetched, every key of a location fetched
\* successfully holds a record of this run in the file, and no record of a
\* failed location was written.
C6_FailureIsSkipped ==
    Saved =>
        \A i \in DOMAIN worker :
            LET loc == locations_needing_update[i]
            IN  /\ worker[i] \in {"ok", "failed"}
                /\ worker[i] = "ok" =>
                       \A k \in KeysOf(loc) :
                           /\ k \in FileKeys(file)
                           /\ \E j \in DOMAIN worker :
                                  /\ worker[j] = "ok"
                                  /\ NewRecordOf(file.data[k], locations_needing_update[j])
                /\ worker[i] = "failed" =>
                       \A k \in FileKeys(file) :
                           NewRecordOf(file.data[k], loc) => SameEntry(file, file_at_start, k)

\* a saved run with a failed fetch and a successful fetch submitted after it
C6_Witness ==
    /\ Saved
    /\ \E i, j \in DOMAIN worker : i < j /\ worker[i] = "failed" /\ worker[j] = "ok"

\* the locations fetched in this run that round to key k
Sharing(k) == {j \in DOMAIN worker : k \in KeysOf(locations_needing_update[j])}

\* loc shares no key with another location fetched in this run
Alone(loc) ==
    \A j \in DOMAIN worker :
        locations_needing_update[j] # loc => KeysOf(locations_needing_update[j]) \cap KeysOf(loc) = {}

---------------------------------------------------------------------------
(* The partition step on its own: runs started with every combination of the
   two batch arguments, followed up to the submission of the fetches *)

Registries == {RegistryA, RegistryB, RegistryC}

\* --batch-size and --batch-number: a count and a 0-indexed number, each optional
PartitionArgs ==
    ({None} \cup {Some(n) : n \in 0..MaxBatchSize + 2})
        \X ({None} \cup {Some(n) : n \in 0..MaxBatchNumber + 2})

InitPartition ==
    /\ csv_exists = TRUE
    /\ registry \in Registries
    /\ file = AbsentFile
    /\ now = 0
    /\ SEA_TEMP_CACHE = EmptySeaCache
    /\ Idle
    /\ NoHarness

PartitionStarts == \E a \in PartitionArgs : StartRun(a[1], a[2], "once") /\ NoSeq

NextPartition ==
    \/ PartitionStarts
    \/ Seas
    \/ LoadFilter
    \/ Returns

SpecPartition == InitPartition /\ [][NextPartition]_vars

Coord(loc) == <<loc.Latitude, loc.Longitude>>

\* the rows that are the first of their coordinate pair
FirstRows(rows) == {i \in DOMAIN rows : \A j \in 1..(i - 1) : Coord(rows[j]) # Coord(rows[i])}

\* the list de-duplicated by (Latitude, Longitude)
Deduplicated(rows) ==
    LET F == FirstRows(rows)
    IN  [k \in 1..Cardinality(F) |->
            rows[CHOOSE i \in F : Cardinality({j \in F : j <= i}) = k]]

\* the entries of u at the 0-based positions [lo, hi)
Positions(u, lo, hi) ==
    LET P == {q \in 0..(Len(u) - 1) : lo <= q /\ q < hi}
    IN  [k \in 1..Cardinality(P) |-> u[lo + k]]

DistinctCoords(q) == \A i, j \in DOMAIN q : i # j => Coord(q[i]) # Coord(q[j])

Started == pc \in {"sea", "load", "fetch", "done"}

\* C9: with both batch arguments a run considers exactly the positions
\* [batch_number*batch_size, (batch_number+1)*batch_size) of the registry
\* de-duplicated by coordinates, without them (or with only one of them) the whole
\* de-duplicated list; the fetches it submits are one per location needing an
\* update, all of distinct coordinate pairs and all from that slice
C9_Partition ==
    Started =>
        LET u == Deduplicated(registry)
        IN  /\ locations_to_process =
                  IF batch_size.some /\ batch_number.some
                  THEN Positions(u, batch_number.v * batch_size.v,
                                 (batch_number.v + 1) * batch_size.v)
                  ELSE u
            /\ DistinctCoords(locations_to_process)
            /\ pc = "fetch" =>
                  /\ Len(worker) = Len(locations_needing_update)
                  /\ DistinctCoords(locations_needing_update)
                  /\ Elems(locations_needing_update) \subseteq Elems(locations_to_process)

\* a later, partial batch of a registry that repeats a coordinate pair has its
\* fetches submitted
C9_Witness ==
    /\ pc = "fetch"
    /\ batch_size.some /\ batch_number.some /\ batch_number.v > 0
    /\ Len(Deduplicated(registry)) < Len(registry)
    /\ Len(locations_to_process) > 0
    /\ Len(locations_to_process) < batch_size.v
    /\ Len(worker) = Len(locations_to_process)

---------------------------------------------------------------------------
(* The staleness filter on its own: a full run started over every cache of two
   locations, each absent or left with any last_updated *)

RegistryF == <<Alpha, Epsilon>>

\* the last_updated values a cached record can carry
Stamps == {Missing, Garbage} \cup {Iso(t) : t \in 0..(MaxTime + 2)}

\* absent from the cache, or cached with one of the stamps
Absent == [kind |-> "absent", t |-> 0]
Cached == {Absent} \cup Stamps

FilterCache(a, e) ==
    [k \in (IF a = Absent THEN {} ELSE {PrimaryKey(Alpha)})
            \cup (IF e = Absent THEN {} ELSE {PrimaryKey(Epsilon)}) |->
        IF k = PrimaryKey(Alpha)
        THEN Old("Alpha", Alpha.Latitude, Alpha.Longitude, a)
        ELSE Old("Epsilon", Epsilon.Latitude, Epsilon.Longitude, e)]

InitFilter ==
    /\ csv_exists = TRUE
    /\ registry = RegistryF
    /\ \E a \in Cached, e \in Cached : file = ValidFile(FilterCache(a, e))
    /\ now = MaxTime
    /\ SEA_TEMP_CACHE = EmptySeaCache
    /\ Idle
    /\ NoHarness

FilterStarts == StartRun(None, None, "once") /\ NoSeq

NextFilter ==
    \/ FilterStarts
    \/ Seas
    \/ LoadFilter

SpecFilter == InitFilter /\ [][NextFilter]_vars

Filtered == pc \in {"fetch", "done"}

\* hours since the record was stamped
Age(rec) == now - rec.last_updated.t

\* C8: a location of the batch is kept for updating exactly when its key is absent
\* from the loaded cache, or its last_updated is missing or unparseable, or
\* its record is older than the freshness window; a record aged exactly
\* the window, or stamped in the future, is skipped
C8_StalenessFilter ==
    Filtered =>
        \A loc \in Elems(locations_to_process) :
            LET k == PrimaryKey(loc)
            IN  loc \in Elems(locations_needing_update) <=>
                    \/ k \notin DOMAIN existing_weather_data
                    \/ existing_weather_data[k].last_updated.kind # "iso"
                    \/ Age(existing_weather_data[k]) > FRESH_HOURS

\* the filter as the code applies it: a record is skipped exactly when it is
\* younger than the window
C8_SkippedIffYounger ==
    Filtered =>
        \A loc \in Elems(locations_to_process) :
            LET k == PrimaryKey(loc)
            IN  loc \notin Elems(locations_needing_update) <=>
                    /\ k \in DOMAIN existing_weather_data
                    /\ existing_weather_data[k].last_updated.kind = "iso"
                    /\ Age(existing_weather_data[k]) < FRESH_HOURS

\* the filter has met a record aged exactly the window and kept its location
C8_AtTheWindow ==
    /\ Filtered
    /\ \E loc \in Elems(locations_needing_update) :
           /\ PrimaryKey(loc) \in DOMAIN existing_weather_data
           /\ existing_weather_data[PrimaryKey(loc)].last_updated.kind = "iso"
           /\ Age(existing_weather_data[PrimaryKey(loc)]) = FRESH_HOURS

---------------------------------------------------------------------------
(* get_weather_data on its own: one call for every sequence of answers its
   three passes can meet *)

\* 200 answers with null and absent fields, and a fallback request refused
NullFields ==
    Meets(Resp("200", "null", "missing", "num"), Resp("200", "num", "null", "missing"),
          "far", Resp("non200", "missing", "missing", "missing"))

FetchMeets == {AllFine, WeatherTimeout, MarineError, WeatherDown, WeatherBadJson,
               MarineTimeout, NullFields, Weather5xx, Marine5xx}

InitFetch ==
    /\ csv_exists = TRUE
    /\ registry = RegistryB
    /\ file = AbsentFile
    /\ now = 0
    /\ SEA_TEMP_CACHE = EmptySeaCache
    /\ Idle
    /\ call_in \in [1..max_retries -> FetchMeets]
    /\ call_out = NoCall
    /\ seq_size = 0 /\ seq_next = 0 /\ seq_slices = <<>>

\* one call of get_weather_data for a row of the registry, with or without the grid
CallFetch ==
    /\ call_out = NoCall
    /\ \E i \in DOMAIN registry, grid \in {"None", "grid"} :
           call_out' = get_weather_data(registry[i], grid, call_in, now)
    /\ UNCHANGED <<disk, SEA_TEMP_CACHE, mode, pc, locals, http_requests, file_at_start,
                   call_in, seq_size, seq_next, seq_slices>>

NextFetch == CallFetch

SpecFetch == InitFetch /\ [][NextFetch]_vars

Called == call_out.attempts > 0

\* a pass that ends in an exception: either request times out, is refused or
\* returns an unreadable body
Fails(m) == Raises(m.weather) \/ Raises(m.marine)

\* C10 as stated: a fetch that keeps failing is retried 3 times after the first
\* attempt before it is reported as failed
C10_ThreeRetries ==
    (Called /\ ~call_out.ok) =>
        /\ call_out.attempts = 1 + max_retries
        /\ Len(call_out.delays) = max_retries

\* C10: a fetch makes at most max_retries = 3 attempts in all, each attempt after
\* the first preceded by a wait of base_delay * 2^attempt seconds (attempt = 1, 2)
\* and made only because every earlier one failed; it returns a record as soon as
\* an attempt succeeds and reports failure only after the third attempt has failed
C10_ThreeAttempts ==
    Called =>
        /\ call_out.attempts <= max_retries
        /\ call_out.delays = [k \in 1..(call_out.attempts - 1) |-> base_delay * Pow(2, k)]
        /\ \A k \in 1..(call_out.attempts - 1) : Fails(call_in[k])
        /\ call_out.ok <=> ~Fails(call_in[call_out.attempts])
        /\ ~call_out.ok => call_out.attempts = max_retries

\* a fetch whose three attempts all failed, after waits of 4 and 8 seconds
C10_Witness ==
    /\ Called /\ ~call_out.ok
    /\ call_out.attempts = max_retries
    /\ \A k \in 1..max_retries : Fails(call_in[k])
    /\ call_out.delays = <<4, 8>>

---------------------------------------------------------------------------
(* A sequence of batch runs: an outer scheduler runs batch 0, 1, ... of one
   size against the same cache file, empty at first, every fetch succeeding *)

InitCoverage ==
    /\ csv_exists = TRUE
    /\ registry \in Registries
    /\ file = AbsentFile
    /\ now = 0
    /\ SEA_TEMP_CACHE = EmptySeaCache
    /\ Idle
    /\ call_in = <<>> /\ call_out = NoCall
    /\ seq_size \in 1..MaxSeqSize
    /\ seq_next = 0
    /\ seq_slices = <<>>

\* batches still to run: batch_number below ceil(N / batch_size)
SeqPending == seq_next * seq_size < Len(unique_locations(registry))

SeqStart ==
    /\ SeqPending
    /\ StartRun(Some(seq_size), Some(seq_next), "once")
    /\ UNCHANGED <<seq_size, seq_next, seq_slices>>

\* a fetch that succeeds, at once or after two failed passes
SuccessMeets == {ms \in RunMeets : ~Raises(ms[max_retries].weather)}

SeqCompletes == \E i \in DOMAIN worker, ms \in SuccessMeets : Complete(i, ms)

\* the run ends and the scheduler moves on to the next batch
SeqReturn ==
    /\ pc = "done"
    /\ Return
    /\ seq_next' = seq_next + 1
    /\ seq_slices' = Append(seq_slices, locations_to_process)
    /\ UNCHANGED seq_size

NextCoverage ==
    \/ SeqStart
    \/ Seas
    \/ LoadFilter
    \/ SeqCompletes
    \/ MergeStep
    \/ SaveOpen
    \/ SaveDump
    \/ SeqReturn
    \/ Ticks

SpecCoverage == InitCoverage /\ [][NextCoverage]_vars

SeqFinished == pc = "idle" /\ seq_size > 0 /\ ~SeqPending

RECURSIVE Flatten(_)
Flatten(ss) == IF ss = <<>> THEN <<>> ELSE Head(ss) \o Flatten(Tail(ss))

---------------------------------------------------------------------------
(* Provider answers other than a clean 200, seen by one call of get_weather_data *)

ServerError(r) == r.status = "5xx"

\* the first pass got a 5xx answer from one of the two endpoints it asked
FirstPassServerError ==
    \/ ServerError(call_in[1].weather)
    \/ ~Raises(call_in[1].weather) /\ ServerError(call_in[1].marine)

\* C11: a fetch whose first pass is answered with an HTTP 5xx by the atmospheric
\* or the marine endpoint makes a further attempt, as it does after a timeout or
\* a connection error
C11_ServerErrorRetried ==
    (Called /\ FirstPassServerError /\ ~Fails(call_in[1])) => call_out.attempts > 1

\* what the code does with a 5xx answer: nothing is raised, so without an
\* exception from the other endpoint the first pass is also the last and returns
\* a record
C11_ServerErrorAccepted ==
    (Called /\ FirstPassServerError /\ ~Fails(call_in[1])) =>
        call_out.ok /\ call_out.attempts = 1 /\ call_out.delays = <<>>

---------------------------------------------------------------------------
(* Whole runs under provider trouble: call_in is what the passes of every fetch
   of the run meet *)

ProviderMeets == {AllFine, WeatherTimeout, Weather5xx, Marine5xx, NullFields}

InitProviders ==
    /\ csv_exists = TRUE
    /\ registry \in {RegistryF, RegistryB}
    /\ file \in {AbsentFile, ValidFile(SeedCache)}
    /\ now = 0
    /\ SEA_TEMP_CACHE = EmptySeaCache
    /\ Idle
    /\ call_in \in [1..max_retries -> ProviderMeets]
    /\ call_out = NoCall
    /\ seq_size = 0 /\ seq_next = 0 /\ seq_slices = <<>>

ProviderStarts == StartRun(None, None, "once") /\ NoSeq

ProviderCompletes == \E i \in DOMAIN worker : Complete(i, call_in)

NextProviders ==
    \/ ProviderStarts
    \/ Seas
    \/ LoadFilter
    \/ ProviderCompletes
    \/ MergeStep
    \/ SaveOpen
    \/ SaveDump
    \/ Returns

SpecProviders == InitProviders /\ [][NextProviders]_vars

\* the atmospheric endpoint fails on every attempt (by an exception or by a
\* status other than 200) while the marine endpoint answers in full
AtmosphericDown ==
    \A k \in 1..max_retries :
        call_in[k].weather.status # "200" /\ call_in[k].marine = Full200

\* a record whose atmospheric fields are the sentinel and whose wave fields are set
Degraded(rec) ==
    /\ rec.air_temp = "N/A" /\ rec.wind_speed = "N/A" /\ rec.wind_direction = "N/A"
    /\ rec.wave_height = "num" /\ rec.wave_direction = "num" /\ rec.wave_period = "num"

\* C12: after a run during which the atmospheric endpoint failed on every attempt
\* and the marine endpoint succeeded, the file holds, for every location the
\* run had to update, a record of this run with sentinel atmospheric fields and
\* populated wave fields
C12_OneProviderDown ==
    (Saved /\ AtmosphericDown) =>
        \A loc \in Elems(locations_needing_update) :
            Alone(loc) =>
                /\ PrimaryKey(loc) \in FileKeys(file)
                /\ NewRecordOf(file.data[PrimaryKey(loc)], loc)
                /\ Degraded(file.data[PrimaryKey(loc)])

\* the two ways the atmospheric endpoint fails: a status other than 200 on the
\* first pass degrades the record, an exception on every pass leaves no new record
C12_DegradedOnlyWithoutException ==
    (Saved /\ AtmosphericDown) =>
        \A loc \in Elems(locations_needing_update) :
            Alone(loc) =>
                IF \A k \in 1..max_retries : Raises(call_in[k].weather)
                THEN SameEntry(file, file_at_start, PrimaryKey(loc))
                ELSE /\ PrimaryKey(loc) \in FileKeys(file)
                     /\ NewRecordOf(file.data[PrimaryKey(loc)], loc)
                     /\ Degraded(file.data[PrimaryKey(loc)])

FieldNames == {"beach_name", "latitude", "longitude", "air_temp", "wind_speed",
               "wind_direction", "wave_height", "wave_direction", "wave_period",
               "sea_temp", "last_updated"}

Measurements == {"air_temp", "wind_speed", "wind_direction", "wave_height",
                 "wave_direction", "wave_period", "sea_temp"}

\* C13: every record a run has written has the eleven fields, each measurement
\* being a number or the sentinel 'N/A', never null
C13_RecordsComplete ==
    Saved =>
        \A k \in DOMAIN new_weather_data :
            /\ DOMAIN file.data[k] = FieldNames
            /\ \A f \in Measurements : file.data[k][f] \in {"num", "N/A"}

\* what holds of the written records: the eleven fields are there, and only the
\* two directions can be null
C13_OnlyDirectionsNull ==
    Saved =>
        \A k \in DOMAIN new_weather_data :
            /\ DOMAIN file.data[k] = FieldNames
            /\ \A f \in Measurements \ {"wind_direction", "wave_direction"} :
                   file.data[k][f] \in {"num", "N/A"}
            /\ \A f \in {"wind_direction", "wave_direction"} :
                   file.data[k][f] \in {"num", "N/A", "null"}

---------------------------------------------------------------------------
(* load_existing_cache on its own: one call for every content of the file *)

\* weather_cache.json holding well-formed JSON that is not an object: an array,
\* a string, or a number, true, false or null
ArrayFile == [st |-> "array", data |-> EmptyCache]
StringFile == [st |-> "string", data |-> EmptyCache]
ScalarFile == [st |-> "scalar", data |-> EmptyCache]

\* lines 228-242 with the type of what is returned. json.load raises on
\* unparseable text and len() raises on a number, true, false or null, both
\* inside the try block; an array or a string passes both and is returned
LoadOutcome(f) ==
    CASE f.st = "valid"  -> [raised |-> FALSE, type |-> "dict", value |-> f.data]
      [] f.st = "array"  -> [raised |-> FALSE, type |-> "list", value |-> EmptyCache]
      [] f.st = "string" -> [raised |-> FALSE, type |-> "str", value |-> EmptyCache]
      [] OTHER           -> [raised |-> FALSE, type |-> "dict", value |-> EmptyCache]

LoadFiles ==
    {AbsentFile, PartialFile, ArrayFile, StringFile, ScalarFile}
        \cup {ValidFile(FilterCache(a, e)) : a \in Cached, e \in Cached}

InitLoad ==
    /\ csv_exists = TRUE
    /\ registry = RegistryF
    /\ file \in LoadFiles
    /\ now = MaxTime
    /\ SEA_TEMP_CACHE = EmptySeaCache
    /\ Idle
    /\ NoHarness

CallLoad ==
    /\ call_out = NoCall
    /\ call_out' = LoadOutcome(file)
    /\ UNCHANGED <<disk, SEA_TEMP_CACHE, mode, pc, locals, http_requests, file_at_start,
                   call_in, seq_size, seq_next, seq_slices>>

NextLoad == CallLoad

SpecLoad == InitLoad /\ [][NextLoad]_vars

Loaded == call_out # NoCall

\* C14: load_existing_cache never raises and leaves the file as it is; it returns
\* the empty mapping when the file is absent and when its content is not a
\* well-formed JSON object, be it unparseable text or JSON of another type
C14_LoadTolerant ==
    Loaded =>
        /\ ~call_out.raised
        /\ file = file_at_start
        /\ file.st # "valid" => (call_out.type = "dict" /\ call_out.value = EmptyCache)

\* what holds of the load: nothing is raised, the file stays, an object is
\* returned as it is, and everything but an array or a string gives the empty mapping
C14_LoadExceptArrays ==
    Loaded =>
        /\ ~call_out.raised
        /\ file = file_at_start
        /\ file.st = "valid" => (call_out.type = "dict" /\ call_out.value = file.data)
        /\ file.st \notin {"valid", "array", "string"} =>
               (call_out.type = "dict" /\ call_out.value = EmptyCache)

---------------------------------------------------------------------------
(* How a run ends *)

\* the step by which update_weather_cache returns
Returning == pc # "done" /\ pc' = "done"

\* C15 as stated: every run that got past the registry returns through the write
\* of the cache file, also when no location needed updating
C15_AlwaysPersists ==
    [][Returning => (pc = "dump" /\ file' = ValidFile(weather_data))]_vars

\* C15: a run returns through the write of the cache file exactly when some
\* location needed updating; when none did (a fresh batch, or an empty slice) it
\* returns before the merge and the file is left as it was, not rewritten
C15_PersistsWhenNeeded ==
    [][Returning =>
          IF locations_needing_update' # <<>>
          THEN pc = "dump" /\ file' = ValidFile(weather_data)
          ELSE pc \in {"idle", "load"} /\ file' = file]_vars

\* a run over a batch with locations, none needing an update, has returned and
\* the file is the one it found
C15_Witness ==
    /\ pc = "done"
    /\ locations_to_process # <<>>
    /\ locations_needing_update = <<>>
    /\ worker = <<>>
    /\ file.st = "valid" /\ file = file_at_start

---------------------------------------------------------------------------
(* Runs with and without the registry file *)

InitRegistry ==
    /\ csv_exists \in BOOLEAN
    /\ registry \in (IF csv_exists THEN Registries ELSE {<<>>})
    /\ file \in {AbsentFile, ValidFile(SeedCache)}
    /\ now = 0
    /\ SEA_TEMP_CACHE = EmptySeaCache
    /\ Idle
    /\ NoHarness

NextRegistry ==
    \/ Starts
    \/ Seas
    \/ LoadFilter
    \/ Returns
    \/ Ticks

SpecRegistry == InitRegistry /\ [][NextRegistry]_vars

\* update_weather_cache has returned to its caller, which for a run-once
\* invocation (lines 482-483) ends the process with exit status 0
ReturnedNormally == pc = "done"

\* C16: a run-once invocation that does not find the registry file does not
\* return normally
C16_MissingRegistryFatal ==
    (mode = "once" /\ ~csv_exists /\ pc # "idle") => ~ReturnedNormally

\* what the code does without the registry file: the run returns at once, in
\* either mode, having sent no request and left the cache file alone
C16_MissingRegistryIgnored ==
    (~csv_exists /\ pc # "idle") =>
        /\ ReturnedNormally
        /\ http_requests = {} /\ file = file_at_start
        /\ locations_to_process = <<>> /\ worker = <<>>

---------------------------------------------------------------------------
(* The display layer's lookups: find_closest_weather_match of mobile_beach_app.py
   and find_weather_for_beach of flag.py *)

\* The cache as a lookup iterates it: a sequence of entries in the order of the
\* JSON file. A key is the tuple of the parts '_' splits it into: two numbers
\* for a coordinate key, one part or three for a key that is no coordinate pair.
Entry(key, rec) == [key |-> key, rec |-> rec]

\* a parse that takes the first two parts of any longer key
ParsesLoose(key) == Len(key) >= 2

\* map(float, key.split('_')) gives two numbers
Parses(key) == Len(key) = 2

HasKey(cache, key) == \E i \in DOMAIN cache : cache[i].key = key
AtKey(cache, key) == cache[CHOOSE i \in DOMAIN cache : cache[i].key = key].rec

\* what a lookup returns when there is nothing: {} on mobile, None on desktop
NoRecord == [beach_name |-> "none"]
NotFound == [found |-> FALSE, rec |-> NoRecord, via |-> "none"]
Found(rec, via) == [found |-> TRUE, rec |-> rec, via |-> via]

\* mobile: tolerance=0.01, in units of 1e-8 degree
tolerance == 1000000
\* desktop: within 0.001 degrees, in units of 1e-8 degree
nearby == 100000

\* mobile: for decimals in [6, 5, 4, 3]
MobileDecimals == <<6, 5, 4, 3>>
MobileVia == <<"round6", "round5", "round4", "round3">>

Abs(x) == IF x < 0 THEN 0 - x ELSE x

\* x * x as <<h, l>> standing for h * 10^8 + l with 0 <= l < 10^8
Sq(x) ==
    LET a == Abs(x)
        h == a \div 10000
        l == a % 10000
        m == 2 * h * l
        lo == (m % 10000) * 10000 + l * l
    IN  <<h * h + m \div 10000 + lo \div 100000000, lo % 100000000>>

Plus(p, q) == <<p[1] + q[1] + (p[2] + q[2]) \div 100000000, (p[2] + q[2]) % 100000000>>
Less(p, q) == p[1] < q[1] \/ (p[1] = q[1] /\ p[2] < q[2])

\* the square of ((lat - cache_lat) ** 2 + (lon - cache_lon) ** 2) ** 0.5
Distance2(lat, lon, key) == Plus(Sq(lat - key[1]), Sq(lon - key[2]))

\* mobile lines 49-54: the first rounding whose key is in the cache
RECURSIVE RoundedMatch(_, _, _, _)
RoundedMatch(lat, lon, cache, i) ==
    IF i > Len(MobileDecimals) THEN NotFound
    ELSE LET weather_key == Key(lat, lon, MobileDecimals[i])
         IN  IF HasKey(cache, weather_key)
             THEN Found(AtKey(cache, weather_key), MobileVia[i])
             ELSE RoundedMatch(lat, lon, cache, i + 1)

\* mobile lines 56-69: the loop from entry i on; best is closest_weather, with
\* closest_distance squared in d2 once an entry was taken
RECURSIVE ClosestScan(_, _, _, _, _)
ClosestScan(lat, lon, cache, i, best) ==
    IF i > Len(cache) THEN best
    ELSE IF ~Parses(cache[i].key) THEN ClosestScan(lat, lon, cache, i + 1, best)
    ELSE LET d2 == Distance2(lat, lon, cache[i].key)
         IN  IF Less(d2, Sq(tolerance)) /\ (~best.found \/ Less(d2, best.d2))
             THEN ClosestScan(lat, lon, cache, i + 1,
                              [found |-> TRUE, rec |-> cache[i].rec, d2 |-> d2])
             ELSE ClosestScan(lat, lon, cache, i + 1, best)

\* mobile_beach_app.py lines 43-71
find_closest_weather_match(lat, lon, weather_cache) ==
    IF weather_cache = <<>> THEN NotFound
    ELSE LET r == RoundedMatch(lat, lon, weather_cache, 1)
             b == ClosestScan(lat, lon, weather_cache, 1,
                              [found |-> FALSE, rec |-> NoRecord, d2 |-> <<0, 0>>])
         IN  IF r.found THEN r
             ELSE IF b.found THEN Found(b.rec, "scan")
             ELSE NotFound

\* desktop lines 460-475: the first entry within 0.001 degree on both axes
RECURSIVE FirstNearby(_, _, _, _)
FirstNearby(lat, lon, cache, i) ==
    IF i > Len(cache) THEN NotFound
    ELSE IF ~Parses(cache[i].key) THEN FirstNearby(lat, lon, cache, i + 1)
    ELSE IF Abs(cache[i].key[1] - lat) < nearby /\ Abs(cache[i].key[2] - lon) < nearby
    THEN Found(cache[i].rec, "scan")
    ELSE FirstNearby(lat, lon, cache, i + 1)

\* flag.py lines 447-477. exact_key is f"{lat}_{lon}" and full_precision_key is
\* f"{float(lat)}_{float(lon)}": the same text for the floats of the registry
find_weather_for_beach(lat, lon, weather_cache) ==
    LET exact_key == <<lat, lon>>
        full_precision_key == <<lat, lon>>
    IN  IF HasKey(weather_cache, exact_key) THEN Found(AtKey(weather_cache, exact_key), "exact")
        ELSE IF HasKey(weather_cache, full_precision_key)
        THEN Found(AtKey(weather_cache, full_precision_key), "float")
        ELSE FirstNearby(lat, lon, weather_cache, 1)

---------------------------------------------------------------------------
(* The two lookups on their own: one call for every query and cache drawn from
   a pool of entries around the point (37.5, 23.0), which is <<0, 0>> here *)

Rec(name, key) == Old(name, key[1], key[2], Iso(0))

PoolKeys == {<<0, 0>>, <<10, 0>>, <<100, 100>>, <<299950, 0>>, <<300040, 0>>,
             <<299960, 0>>, <<0, 2000000>>}

\* an entry per coordinate key, and one under a key of three parts
EntryPool ==
    {Entry(k, Rec("P", k)) : k \in PoolKeys} \cup {Entry(<<300000, 0, 0>>, Rec("Odd", <<300000, 0>>))}

\* the caches of at most n entries, keys distinct
CachesUpTo(n) ==
    UNION {{c \in [1..k -> EntryPool] : \A i, j \in 1..k : i # j => c[i].key # c[j].key} :
           k \in 0..n}

Queries == {<<0, 0>>, <<10, 0>>, <<100, 100>>, <<300000, 0>>, <<5000000, 5000000>>}

Query(q, cache) == [lat |-> q[1], lon |-> q[2], cache |-> cache]

InitLookup ==
    /\ csv_exists = TRUE
    /\ registry = RegistryF
    /\ file = AbsentFile
    /\ now = 0
    /\ SEA_TEMP_CACHE = EmptySeaCache
    /\ Idle
    /\ call_in \in {Query(q, c) : q \in Queries, c \in CachesUpTo(MaxCacheLen)}
    /\ call_out = NoCall
    /\ seq_size = 0 /\ seq_next = 0 /\ seq_slices = <<>>

\* the result of a lookup, with the function that gave it and the cache as the
\* call left it (neither function assigns to it or to its entries)
Answer(fn, r, cache) ==
    [fn |-> fn, raised |-> FALSE, found |-> r.found, rec |-> r.rec, via |-> r.via,
     cache |-> cache]

LookupFrame ==
    UNCHANGED <<disk, SEA_TEMP_CACHE, mode, pc, locals, http_requests, file_at_start,
                call_in, seq_size, seq_next, seq_slices>>

CallMobile ==
    /\ call_out = NoCall
    /\ call_out' = Answer("mobile",
                          find_closest_weather_match(call_in.lat, call_in.lon, call_in.cache),
                          call_in.cache)
    /\ LookupFrame

CallDesktop ==
    /\ call_out = NoCall
    /\ call_out' = Answer("desktop",
                          find_weather_for_beach(call_in.lat, call_in.lon, call_in.cache),
                          call_in.cache)
    /\ LookupFrame

NextLookup ==
    \/ CallMobile
    \/ CallDesktop

SpecLookup == InitLookup /\ [][NextLookup]_vars

LookedUp == call_out # NoCall

\* the keys of the claimed order: the exact key, then 7, 6, 5, 4 and 3 decimals
ClaimedKeys(lat, lon) ==
    <<(<<lat, lon>>)>> \o [i \in 1..Len(KeyDecimals) |-> Key(lat, lon, KeyDecimals[i])]

\* the first of them that is in the cache (0: none is)
FirstHit(keys, cache) ==
    IF \E i \in DOMAIN keys : HasKey(cache, keys[i])
    THEN CHOOSE i \in DOMAIN keys :
             HasKey(cache, keys[i]) /\ \A j \in 1..(i - 1) : ~HasKey(cache, keys[j])
    ELSE 0

\* C18: a lookup returns the entry of the first key in the cache among the exact
\* key and the keys rounded to 7, 6, 5, 4 and 3 decimals, and comes to the
\* nearest-neighbour scan only when none of them is in the cache
C18_StrategyOrder ==
    LookedUp =>
        LET keys == ClaimedKeys(call_in.lat, call_in.lon)
            hit == FirstHit(keys, call_in.cache)
        IN  IF hit = 0 THEN call_out.via \in {"scan", "none"}
            ELSE /\ call_out.found
                 /\ call_out.via \notin {"scan", "none"}
                 /\ call_out.rec = AtKey(call_in.cache, keys[hit])

\* the order each function has: the mobile one tries the keys rounded to 6, 5, 4
\* and 3 decimals and then scans; the desktop one tries the exact key and then
\* scans
C18_OrdersOfTheCode ==
    LookedUp =>
        LET keys == IF call_out.fn = "mobile"
                    THEN [i \in 1..Len(MobileDecimals) |->
                             Key(call_in.lat, call_in.lon, MobileDecimals[i])]
                    ELSE <<(<<call_in.lat, call_in.lon>>)>>
            hit == FirstHit(keys, call_in.cache)
        IN  IF hit = 0 THEN call_out.via \in {"scan", "none"}
            ELSE /\ call_out.found
                 /\ call_out.via \notin {"scan", "none"}
                 /\ call_out.rec = AtKey(call_in.cache, keys[hit])

\* the lookup went through its key strategies without a hit
Scanned == LookedUp /\ call_out.via \in {"scan", "none"}

\* a key that names a coordinate pair
IsPair(key) == Len(key) = 2

\* entry i is within the threshold of the function: 0.01 degree of distance on
\* mobile, 0.001 degree on both axes on desktop
Within(fn, i) ==
    LET e == call_in.cache[i]
    IN  /\ IsPair(e.key)
        /\ IF fn = "mobile"
           THEN Less(Distance2(call_in.lat, call_in.lon, e.key), Sq(tolerance))
           ELSE /\ Abs(e.key[1] - call_in.lat) < nearby
                /\ Abs(e.key[2] - call_in.lon) < nearby

Candidates(fn) == {i \in DOMAIN call_in.cache : Within(fn, i)}

D2(i) == Distance2(call_in.lat, call_in.lon, call_in.cache[i].key)

\* the first, in the order of the cache, of the candidates at the least distance
Nearest(fn) ==
    CHOOSE i \in Candidates(fn) :
        \A j \in Candidates(fn) : ~Less(D2(j), D2(i)) /\ (D2(j) = D2(i) => i <= j)

\* C19: when no key matches, the lookup returns the entry closest to the query
\* if one is within the threshold, the first met among the closest, and not-found
\* otherwise
C19_NearestNeighbour ==
    Scanned =>
        IF Candidates(call_out.fn) = {} THEN ~call_out.found
        ELSE call_out.found /\ call_out.rec = call_in.cache[Nearest(call_out.fn)].rec

\* the scans of the code: the mobile one returns the nearest entry within its
\* threshold, the desktop one the first entry within its threshold
C19_NearestOnMobileOnly ==
    Scanned =>
        IF Candidates(call_out.fn) = {} THEN ~call_out.found
        ELSE /\ call_out.found
             /\ call_out.fn = "mobile" => call_out.rec = call_in.cache[Nearest("mobile")].rec
             /\ call_out.fn = "desktop" =>
                    \E i \in Candidates("desktop") :
                        /\ call_out.rec = call_in.cache[i].rec
                        /\ \A j \in Candidates("desktop") : i <= j

---------------------------------------------------------------------------
(* Producer and consumer: a full run of the updater on an empty cache, every
   fetch succeeding, and then a lookup of a registry row in the file it wrote *)

\* The entries of a cache file as a lookup meets them. The model of the updater
\* does not keep the order of insertion, so they are taken in the order of
\* their keys; only the scans depend on the order.
RECURSIVE SortedKeys(_)
SortedKeys(S) ==
    IF S = {} THEN <<>>
    ELSE LET m == CHOOSE k \in S :
                      \A j \in S : k[1] < j[1] \/ (k[1] = j[1] /\ k[2] <= j[2])
         IN  <<m>> \o SortedKeys(S \ {m})

Entries(data) ==
    LET ks == SortedKeys(DOMAIN data)
    IN  [i \in DOMAIN ks |-> Entry(ks[i], data[ks[i]])]

InitCompat ==
    /\ csv_exists = TRUE
    /\ registry \in Registries
    /\ file = AbsentFile
    /\ now = 0
    /\ SEA_TEMP_CACHE = EmptySeaCache
    /\ Idle
    /\ NoHarness

CompatStart == call_out = NoCall /\ file = AbsentFile /\ StartRun(None, None, "once") /\ NoSeq

\* the display layer asks for the weather of row i of the registry
LookupRow(fn, i) ==
    /\ Saved
    /\ call_out = NoCall
    /\ LET loc == registry[i]
           cache == Entries(file.data)
       IN  /\ call_in' = [lat |-> loc.Latitude, lon |-> loc.Longitude, cache |-> cache,
                          loc |-> loc]
           /\ call_out' = Answer(fn,
                                 IF fn = "mobile"
                                 THEN find_closest_weather_match(loc.Latitude, loc.Longitude, cache)
                                 ELSE find_weather_for_beach(loc.Latitude, loc.Longitude, cache),
                                 cache)
    /\ UNCHANGED <<disk, SEA_TEMP_CACHE, mode, pc, locals, http_requests, file_at_start,
                   seq_size, seq_next, seq_slices>>

LookupMobile == \E i \in DOMAIN registry : LookupRow("mobile", i)
LookupDesktop == \E i \in DOMAIN registry : LookupRow("desktop", i)

NextCompat ==
    \/ CompatStart
    \/ Seas
    \/ LoadFilter
    \/ SeqCompletes
    \/ MergeStep
    \/ SaveOpen
    \/ SaveDump
    \/ LookupMobile
    \/ LookupDesktop

SpecCompat == InitCompat /\ [][NextCompat]_vars

\* the run has written the record of loc under one of its keys
Written(loc) == \E k \in KeysOf(loc) \cap FileKeys(file) : NewRecordOf(file.data[k], loc)

\* C17: once the updater has written the record of a registry location, a lookup
\* with the location's registry coordinates, on mobile and on desktop, returns
\* that record through a key match and not through the scan
C17_KeyCompatible ==
    (LookedUp /\ Written(call_in.loc)) =>
        /\ call_out.found
        /\ call_out.via \notin {"scan", "none"}
        /\ NewRecordOf(call_out.rec, call_in.loc)

\* coordinates that the 7-decimal key of the updater spells out in full
SevenDecimals(loc) ==
    Round(loc.Latitude, 7) = loc.Latitude /\ Round(loc.Longitude, 7) = loc.Longitude

\* what the two lookups give after the run: the mobile one the record under the
\* location's 6-decimal key, its own one if no other location shares a key with
\* it; the desktop one the record under the exact key if the coordinates have
\* at most 7 decimals, and the result of its scan otherwise
C17_CompatibleUpToPrecision ==
    (LookedUp /\ Written(call_in.loc)) =>
        /\ call_out.found
        /\ call_out.fn = "mobile" =>
               /\ call_out.via = "round6"
               /\ call_out.rec = file.data[PrimaryKey(call_in.loc)]
               /\ Alone(call_in.loc) => NewRecordOf(call_out.rec, call_in.loc)
        /\ call_out.fn = "desktop" =>
               IF SevenDecimals(call_in.loc)
               THEN /\ call_out.via = "exact"
                    /\ call_out.rec = file.data[Key(call_in.loc.Latitude, call_in.loc.Longitude, 7)]
               ELSE call_out.via = "scan"

---------------------------------------------------------------------------
(* C21: the first run over an empty cache *)

\* a full run that found no cache file, all of whose fetches succeeded, has returned
Bootstrapped ==
    /\ Saved
    /\ file_at_start = AbsentFile
    /\ ~batch_size.some /\ ~batch_number.some
    /\ \A j \in DOMAIN worker : worker[j] = "ok"

---------------------------------------------------------------------------
(* C22: the order in which the fetches complete *)

\* the location each key's record belongs to
Owners(new) == [k \in DOMAIN new |-> <<new[k].beach_name, new[k].latitude, new[k].longitude>>]

\* what the fetch of location j of this run returned
ResultOf(j) ==
    [ok |-> worker[j] = "ok", info |-> InitialInfo(locations_needing_update[j], now),
     attempts |-> 0, delays |-> <<>>, http |-> {}]

\* the result mapping had the fetches completed in the order order[1], order[2], ...
RECURSIVE CollectedIn(_, _, _)
CollectedIn(order, n, new) ==
    IF n > Len(locations_needing_update) THEN new
    ELSE CollectedIn(order, n + 1,
                     Collect(new, locations_needing_update[order[n]], ResultOf(order[n])))

\* C22: for a fixed batch and fixed fetch results, the keys written by a run
\* and the location each key's record belongs to are the same for every order
\* in which the fetches complete, also when two locations round to the same key.
C22_OrderIndependent ==
    Saved =>
        \A order \in Permutations(DOMAIN worker) :
            Owners(CollectedIn(order, 1, EmptyCache)) = Owners(new_weather_data)

\* what holds: the keys are the same for every order, and so is the owner of
\* every key that only one successfully fetched location rounds to
C22_IndependentUnlessShared ==
    Saved =>
        \A order \in Permutations(DOMAIN worker) :
            LET other == CollectedIn(order, 1, EmptyCache)
            IN  /\ DOMAIN other = DOMAIN new_weather_data
                /\ \A k \in DOMAIN other :
                       Cardinality({j \in Sharing(k) : worker[j] = "ok"}) = 1 =>
                           Owners(other)[k] = Owners(new_weather_data)[k]

---------------------------------------------------------------------------
(* C23: the requests of the worker threads, one request at a time.
   SpecDispatch follows every worker of a full run over RegistryC through
   get_weather_data request by request. worker[i] is "queued", "running"
   (in a pass, before its first request: the backoff sleep of lines 138-141),
   "forecast" (the request of line 163 is in flight), "pause" (the sleep of
   line 172), "marine" (the request of line 175 is in flight), "marine_sst"
   (the request of line 97 is in flight), "returned" (the future is done and
   the collecting loop has not taken it yet), "ok" or "failed". call_in is
   what the passes of every fetch meet, call_out[i] the pass worker i is in. *)

InitDispatch ==
    /\ csv_exists = TRUE
    /\ registry = RegistryC /\ file = AbsentFile
    /\ now = 0
    /\ sea_temp_data \in {"None", "grid"}
    /\ SEA_TEMP_CACHE = IF sea_temp_data = "grid" THEN [data |-> "grid", last_updated |-> Some(0)]
                        ELSE EmptySeaCache
    /\ mode = "once" /\ pc = "fetch"
    /\ batch_size = None /\ batch_number = None
    /\ locations_to_process = LocationsToProcess(registry, None, None)
    /\ existing_weather_data = load_existing_cache(file)
    /\ locations_needing_update = FilterNeeding(locations_to_process, existing_weather_data, now)
    /\ worker = Submitted(Len(locations_needing_update))
    /\ new_weather_data = EmptyCache
    /\ weather_data = EmptyCache
    /\ http_requests = IF sea_temp_data = "grid" THEN {"noaa"} ELSE {}
    /\ file_at_start = file
    /\ call_in \in RunMeets
    /\ call_out = [i \in DOMAIN worker |-> 0]
    /\ seq_size = 0 /\ seq_next = 0 /\ seq_slices = <<>>

DispatchFrame ==
    UNCHANGED <<disk, SEA_TEMP_CACHE, mode, pc, batch_size, batch_number, locations_to_process,
                sea_temp_data, existing_weather_data, locations_needing_update, weather_data,
                file_at_start, call_in, seq_size, seq_next, seq_slices>>

\* a worker that stores a record in the result mapping itself
MovesAndStores(i, status, endpoints) ==
    /\ worker' = [worker EXCEPT ![i] = status]
    /\ http_requests' = http_requests \cup endpoints
    /\ new_weather_data' = StoreKeys(new_weather_data, locations_needing_update[i],
                                     InitialInfo(locations_needing_update[i], now), 1)
    /\ UNCHANGED call_out

\* worker i moves on inside get_weather_data
Moves(i, status, endpoints) ==
    /\ worker' = [worker EXCEPT ![i] = status]
    /\ http_requests' = http_requests \cup endpoints
    /\ UNCHANGED <<new_weather_data, call_out>>

\* lines 211-226: get_weather_data returns in worker i, which makes the future
\* done; the pool thread takes the next queued future
Finishes(i) ==
    LET w == [worker EXCEPT ![i] = "returned"]
    IN  /\ worker' = [j \in DOMAIN w |-> IF j \in NextQueued(w) THEN "running" ELSE w[j]]
        /\ UNCHANGED <<new_weather_data, http_requests, call_out>>

\* lines 214-223: an exception ends the pass of worker i
PassFails(i) ==
    IF LastAttempt(call_out[i]) THEN Finishes(i)
    ELSE /\ worker' = [worker EXCEPT ![i] = "running"]
         /\ call_out' = [call_out EXCEPT ![i] = call_out[i] + 1]
         /\ UNCHANGED <<new_weather_data, http_requests>>

\* what the current pass of worker i meets
Meeting(i) == call_in[call_out[i] + 1]

\* line 163: requests.get(weather_url, timeout=20) is sent
SendForecast(i) ==
    /\ pc = "fetch" /\ i \in DOMAIN worker /\ worker[i] = "running"
    /\ Moves(i, "forecast", {"forecast"})
    /\ DispatchFrame

\* lines 163-169: the answer, or the exception, arrives
ForecastAnswered(i) ==
    /\ pc = "fetch" /\ i \in DOMAIN worker /\ worker[i] = "forecast"
    /\ IF Raises(Meeting(i).weather) THEN PassFails(i) ELSE Moves(i, "pause", {})
    /\ DispatchFrame

\* lines 172-175: after the sleep, requests.get(marine_url, timeout=20) is sent
SendMarine(i) ==
    /\ pc = "fetch" /\ i \in DOMAIN worker /\ worker[i] = "pause"
    /\ Moves(i, "marine", {"marine"})
    /\ DispatchFrame

\* lines 175-204: the marine answer arrives; without a grid point within
\* reach the fallback request of line 97 is sent
MarineAnswered(i) ==
    /\ pc = "fetch" /\ i \in DOMAIN worker /\ worker[i] = "marine"
    /\ IF Raises(Meeting(i).marine) THEN PassFails(i)
       ELSE IF NoaaSeaTemp(sea_temp_data, Meeting(i).noaa) = "N/A"
       THEN Moves(i, "marine_sst", {"marine_sst"})
       ELSE Finishes(i)
    /\ DispatchFrame

\* lines 97-108: the fallback answers, or fails, and the record is returned
SstAnswered(i) ==
    /\ pc = "fetch" /\ i \in DOMAIN worker /\ worker[i] = "marine_sst"
    /\ Finishes(i)
    /\ DispatchFrame

\* lines 402-412: the collecting loop, in the thread of update_weather_cache,
\* takes the result of a future that is done
Collects(i) ==
    /\ pc = "fetch" /\ i \in DOMAIN worker /\ worker[i] = "returned"
    /\ LET loc == locations_needing_update[i]
           r == get_weather_data(loc, sea_temp_data, call_in, now)
       IN  /\ worker' = [worker EXCEPT ![i] = IF r.ok THEN "ok" ELSE "failed"]
           /\ new_weather_data' = Collect(new_weather_data, loc, r)
    /\ UNCHANGED <<http_requests, call_out>>
    /\ DispatchFrame

Workers == 1..Len(unique_locations(RegistryC))

SendsForecast == \E i \in Workers : SendForecast(i)
ForecastAnswers == \E i \in Workers : ForecastAnswered(i)
SendsMarine == \E i \in Workers : SendMarine(i)
MarineAnswers == \E i \in Workers : MarineAnswered(i)
SstAnswers == \E i \in Workers : SstAnswered(i)
Collecting == \E i \in Workers : Collects(i)

NextDispatch ==
    \/ SendsForecast
    \/ ForecastAnswers
    \/ SendsMarine
    \/ MarineAnswers
    \/ SstAnswers
    \/ Collecting
    \/ MergeStep

SpecDispatch == InitDispatch /\ [][NextDispatch]_vars

\* the workers with a request in flight
InFlight == {i \in DOMAIN worker : worker[i] \in {"forecast", "marine", "marine_sst"}}

\* C23: whatever the number of worker threads, no two outbound HTTP requests
\* of the updater are in flight at the same time.
C23_DispatchSerialized == Cardinality(InFlight) <= 1

\* what holds: at most max_workers requests are in flight, one per busy
\* worker, and the remaining fetches wait in the queue
C23_OnePerWorker ==
    /\ Cardinality(InFlight) <= max_workers
    /\ Cardinality({i \in DOMAIN worker : worker[i] \notin {"queued", "returned", "ok", "failed"}}) <= max_workers

\* every worker of the pool has a request in flight while a fetch is queued
C23_PoolBusy ==
    /\ Cardinality(InFlight) = max_workers
    /\ \E i \in DOMAIN worker : worker[i] = "queued"

---------------------------------------------------------------------------
(* C24: the bulk sea-temperature grid *)

\* the in-memory grid is there and less than 4 hours old
GridYoung ==
    /\ SEA_TEMP_CACHE.data = "grid"
    /\ SEA_TEMP_CACHE.last_updated.some
    /\ (now - SEA_TEMP_CACHE.last_updated.v) * 3600 < SEA_TTL_SECONDS

\* this step sends the request for the grid
AsksGrid == "noaa" \notin http_requests /\ "noaa" \in http_requests'

\* C24: the grid is requested at most once per run (only by the step of line
\* 368, which a run takes once, right after its start) and never by a
\* per-location worker; while the in-memory grid is less than 4 hours old that
\* step returns it without any HTTP request.
C24_GridOncePerRun ==
    [][/\ AsksGrid => (pc = "sea" /\ pc' = "load")
       /\ pc' = "sea" => (pc = "idle" /\ http_requests' = {})
       /\ pc = "fetch" =>
              \A i \in DOMAIN worker, ms \in RunMeets :
                  "noaa" \notin get_weather_data(locations_needing_update[i], sea_temp_data,
                                                 ms, now).http
       /\ (pc = "sea" /\ pc' = "load" /\ GridYoung) =>
              /\ http_requests' = http_requests
              /\ sea_temp_data' = SEA_TEMP_CACHE.data
              /\ SEA_TEMP_CACHE' = SEA_TEMP_CACHE]_vars

\* a later run of the continuous mode got the grid of an earlier run without a request
C24_Witness ==
    /\ pc = "load" /\ mode = "loop"
    /\ GridYoung /\ SEA_TEMP_CACHE.last_updated.v < now
    /\ sea_temp_data = "grid" /\ http_requests = {}

---------------------------------------------------------------------------
(* C25: the sea temperature of a record. SpecSeaTemp calls get_weather_data
   once for every combination of grid, distance to the nearest grid point,
   answer of the fallback request and answers of the two other requests;
   every pass of the call meets the same answers. *)

\* the answers the fallback request of line 97 can get
SeaResps == {Full200, Resp("200", "null", "missing", "missing"),
             Resp("200", "missing", "missing", "missing"),
             Resp("non200", "missing", "missing", "missing"),
             Resp("timeout", "missing", "missing", "missing"),
             Resp("badjson", "missing", "missing", "missing")}

\* the answers of the forecast and of the marine request
OtherResps == {Full200, Resp("200", "null", "missing", "num"),
               Resp("5xx", "missing", "missing", "missing"),
               Resp("timeout", "missing", "missing", "missing")}

InitSeaTemp ==
    /\ csv_exists = TRUE
    /\ registry = RegistryB
    /\ file = AbsentFile
    /\ now = 0
    /\ SEA_TEMP_CACHE = EmptySeaCache
    /\ Idle
    /\ \E grid \in {"None", "grid"}, noaa \in {"near", "far"}, sea \in SeaResps,
          w \in OtherResps, m \in OtherResps :
           call_in = [grid |-> grid, m |-> Meets(w, m, noaa, sea)]
    /\ call_out = NoCall
    /\ seq_size = 0 /\ seq_next = 0 /\ seq_slices = <<>>

\* the same answers at every pass
EveryPass(m) == [k \in 1..max_retries |-> m]

CallSeaTemp ==
    /\ call_out = NoCall
    /\ \E i \in DOMAIN registry :
           call_out' = get_weather_data(registry[i], call_in.grid, EveryPass(call_in.m), now)
    /\ UNCHANGED <<disk, SEA_TEMP_CACHE, mode, pc, locals, http_requests, file_at_start,
                   call_in, seq_size, seq_next, seq_slices>>

NextSeaTemp == CallSeaTemp

SpecSeaTemp == InitSeaTemp /\ [][NextSeaTemp]_vars

\* the grid gives no value for the point: there is no grid, or its nearest
\* point is not within 2.0 degrees
GridLacks == call_in.grid = "None" \/ call_in.m.noaa = "far"

\* the marine endpoint gives no sea-surface temperature
MarineLacks == ~(call_in.m.sea.status = "200" /\ call_in.m.sea.f1 = "num")

\* the same call had the grid given a value for the point
WithSeaTemp(loc) ==
    get_weather_data(loc, "grid", EveryPass([call_in.m EXCEPT !.noaa = "near"]), now)

\* the call returned what it returns when the sea temperature is there,
\* but for the sea temperature itself
OthersIntact ==
    \E i \in DOMAIN registry :
        /\ call_out.ok = WithSeaTemp(registry[i]).ok
        /\ call_out.attempts = WithSeaTemp(registry[i]).attempts
        /\ [call_out.info EXCEPT !.sea_temp = "N/A"]
               = [WithSeaTemp(registry[i]).info EXCEPT !.sea_temp = "N/A"]

\* the two other requests raise no exception
OthersAnswer == ~Raises(call_in.m.weather) /\ ~Raises(call_in.m.marine)

\* C25 as claimed: when the grid gives no value for the point or the marine
\* endpoint lacks the value, sea_temp is the sentinel, and the fetch succeeds
\* with its other fields intact.
C25_SentinelIfEitherLacks ==
    (Called /\ OthersAnswer /\ (GridLacks \/ MarineLacks)) =>
        /\ call_out.ok /\ call_out.info.sea_temp = "N/A"
        /\ OthersIntact

\* C25, amended: the grid is asked first and the marine endpoint only when the
\* grid gives no value; sea_temp is the sentinel exactly when both give none,
\* and whatever happens to the sea temperature the fetch ends as it would
\* have ended with the value at hand, with the same other fields.
C25_SentinelIffBothLack ==
    Called =>
        /\ OthersIntact
        /\ OthersAnswer =>
               /\ call_out.ok
               /\ call_out.info.sea_temp = "N/A" <=> (GridLacks /\ MarineLacks)
               /\ "marine_sst" \in call_out.http <=> GridLacks

\* a successful fetch without a grid whose fallback request timed out
C25_Witness ==
    /\ Called /\ call_out.ok
    /\ call_in.grid = "None" /\ call_in.m.sea.status = "timeout"
    /\ call_out.info.sea_temp = "N/A" /\ call_out.info.air_temp = "num"

---------------------------------------------------------------------------
(* C26: who writes what during the parallel fetches *)

\* this step is the collecting loop taking the result of future i
CollectorTakes(i) ==
    /\ worker[i] = "returned" /\ worker'[i] \in {"ok", "failed"}
    /\ \A j \in DOMAIN worker : j # i => worker'[j] = worker[j]

\* C26: within a run the worker threads never write shared state. The result
\* mapping changes only in a step of the collecting loop, which adds whole
\* records of one future under keys not taken yet and leaves every earlier
\* entry as it was; the loaded cache and the grid do not change while workers
\* run, and the merge happens only when every future has been collected; so
\* at the merge every successful fetch has all its keys in the result mapping.
C26_WorkersWriteNothing ==
    [][/\ sea_temp_data' = sea_temp_data /\ SEA_TEMP_CACHE' = SEA_TEMP_CACHE
       /\ existing_weather_data' = existing_weather_data
       /\ new_weather_data' # new_weather_data =>
              \E i \in DOMAIN worker :
                  /\ CollectorTakes(i) /\ worker'[i] = "ok"
                  /\ DOMAIN new_weather_data \subseteq DOMAIN new_weather_data'
                  /\ \A k \in DOMAIN new_weather_data : new_weather_data'[k] = new_weather_data[k]
                  /\ \A k \in DOMAIN new_weather_data' \ DOMAIN new_weather_data :
                         /\ k \in KeysOf(locations_needing_update[i])
                         /\ new_weather_data'[k] =
                                get_weather_data(locations_needing_update[i], sea_temp_data,
                                                 call_in, now).info
       /\ weather_data' # weather_data =>
              /\ \A j \in DOMAIN worker : worker[j] \in {"ok", "failed"}
              /\ \A j \in DOMAIN worker :
                     worker[j] = "ok" =>
                         KeysOf(locations_needing_update[j]) \subseteq DOMAIN new_weather_data
              /\ \A k \in DOMAIN new_weather_data :
                     \E j \in Sharing(k) : worker[j] = "ok"
                                           /\ NewRecordOf(new_weather_data[k],
                                                          locations_needing_update[j])]_vars

\* two futures are done and not collected yet, a third worker has a request
\* in flight, and the collecting loop has already stored a record
C26_Witness ==
    /\ pc = "fetch"
    /\ Cardinality({i \in DOMAIN worker : worker[i] = "returned"}) >= 2
    /\ InFlight # {}
    /\ new_weather_data # EmptyCache

---------------------------------------------------------------------------
(* C27: a failed fetch and the staleness filter *)

\* the next run, started now, would fetch loc again
NeedsUpdateNext(loc) == should_update_beach(load_existing_cache(file), PrimaryKey(loc), now)

\* C27: when get_weather_data returns no record for a location, the run
\* writes nothing under that location's staleness key, and the next run
\* whose batch covers the location classifies it as needing update.
C27_FailureStaysStale ==
    Saved =>
        \A i \in DOMAIN worker :
            worker[i] = "failed" =>
                /\ SameEntry(file, file_at_start, PrimaryKey(locations_needing_update[i]))
                /\ NeedsUpdateNext(locations_needing_update[i])

\* what holds: a failed location whose staleness key no successfully fetched
\* location of the run rounds to keeps its entry and is fetched again; when a
\* successful neighbour rounds to that key, the neighbour's new record is
\* stored under it and the failed location is skipped as fresh
C27_StaleUnlessShared ==
    Saved =>
        \A i \in DOMAIN worker :
            LET loc == locations_needing_update[i]
                neighbours == {j \in Sharing(PrimaryKey(loc)) : worker[j] = "ok"}
            IN  worker[i] = "failed" =>
                    IF neighbours = {}
                    THEN SameEntry(file, file_at_start, PrimaryKey(loc)) /\ NeedsUpdateNext(loc)
                    ELSE /\ \E j \in neighbours :
                                NewRecordOf(file.data[PrimaryKey(loc)], locations_needing_update[j])
                         /\ ~NeedsUpdateNext(loc)

\* the same with a neighbour 0.0004 degrees away, whose 3-decimal key is the
\* staleness key of the failed location
C27_MaskedByNeighbour ==
    /\ Saved
    /\ \E i, j \in DOMAIN worker :
           /\ worker[i] = "failed" /\ worker[j] = "ok"
           /\ locations_needing_update[i] = Alpha /\ locations_needing_update[j] = Beta
           /\ NewRecordOf(file.data[PrimaryKey(Alpha)], Beta)

(* The continuous mode, a fetch failing or succeeding at each run, no process
   being killed. SpecRetry adds what the scheduling gives, every step of a run
   being eventually taken, and the hypothesis of the claim: the fetch of a
   location that is tried again and again eventually succeeds. *)

InitRetry ==
    /\ csv_exists = TRUE
    /\ registry \in {RegistryF, RegistryB, RegistryA}
    /\ file = AbsentFile
    /\ now = 0
    /\ SEA_TEMP_CACHE = EmptySeaCache
    /\ Idle
    /\ NoHarness

RetryStarts == StartRun(None, None, "loop") /\ NoSeq

\* the fetch of loc completes with a record
SucceedsFor(loc) ==
    \E i \in 1..max_workers :
        /\ i \in DOMAIN locations_needing_update /\ locations_needing_update[i] = loc
        /\ Complete(i, <<AllFine, AllFine, AllFine>>)

NextRetry ==
    \/ RetryStarts
    \/ Seas
    \/ LoadFilter
    \/ Completes
    \/ MergeStep
    \/ SaveOpen
    \/ SaveDump
    \/ Returns
    \/ Ticks

SpecRetry ==
    /\ InitRetry /\ [][NextRetry]_vars
    /\ WF_vars(RetryStarts) /\ WF_vars(Seas) /\ WF_vars(LoadFilter) /\ WF_vars(MergeStep)
    /\ WF_vars(SaveOpen) /\ WF_vars(SaveDump) /\ WF_vars(Returns)
    /\ WF_vars(Completes)
    /\ \A loc \in {Alpha, Beta, Gamma, Delta, Epsilon} : SF_vars(SucceedsFor(loc))

\* every location of the registry has an entry under its staleness key
AllRecorded ==
    \A loc \in Elems(unique_locations(registry)) : PrimaryKey(loc) \in FileKeys(file)

\* the second half of C27: if fetches eventually succeed, every location
\* covered by repeated runs eventually has a record, and keeps one from then
\* on whenever the file is complete
C27_EventuallyRecorded ==
    /\ []<>(file.st = "valid")
    /\ <>[](file.st = "valid" => AllRecorded)

---------------------------------------------------------------------------
(* C28: a record fetched from a provider that refuses the request *)

\* the pass of get_weather_data that returned the record
ReturningPass(k) ==
    /\ k \in 1..max_retries
    /\ \A j \in 1..(k - 1) : Fails(call_in[j])
    /\ ~Fails(call_in[k])

\* that pass met a forecast answer, or a marine answer, with a status other
\* than 200 and no exception
WeatherRefused == \E k \in 1..max_retries : ReturningPass(k) /\ call_in[k].weather.status # "200"
MarineRefused == \E k \in 1..max_retries : ReturningPass(k) /\ call_in[k].marine.status # "200"

\* C28: records are replaced as a whole. When a provider answers with a
\* non-200 status without raising, every fetch of the run returns a record
\* with that provider's fields at the sentinel and a stamp of the run; after
\* the save every entry of the location holds such a whole new record (its
\* own under its staleness key unless a neighbour shares the key), whatever
\* numbers the entry held before, and the staleness filter skips the location
\* for the next 6 hours.
C28_ReplacedWhole ==
    (Saved /\ (WeatherRefused \/ MarineRefused)) =>
        \A i \in DOMAIN worker :
            LET loc == locations_needing_update[i]
            IN  /\ worker[i] = "ok"
                /\ \A k \in KeysOf(loc) :
                       /\ k \in FileKeys(file)
                       /\ \E j \in Sharing(k) :
                              /\ NewRecordOf(file.data[k], locations_needing_update[j])
                              /\ file.data[k] = new_weather_data[k]
                       /\ WeatherRefused =>
                              /\ file.data[k].air_temp = "N/A"
                              /\ file.data[k].wind_speed = "N/A"
                              /\ file.data[k].wind_direction = "N/A"
                       /\ MarineRefused =>
                              /\ file.data[k].wave_height = "N/A"
                              /\ file.data[k].wave_direction = "N/A"
                              /\ file.data[k].wave_period = "N/A"
                /\ Alone(loc) => NewRecordOf(file.data[PrimaryKey(loc)], loc)
                /\ \A t \in now..(now + FRESH_HOURS - 1) :
                       ~should_update_beach(file.data, PrimaryKey(loc), t)
                /\ should_update_beach(file.data, PrimaryKey(loc), now + FRESH_HOURS)

\* a location whose cached air temperature was a number has lost it
C28_Witness ==
    /\ Saved /\ WeatherRefused
    /\ \E loc \in Elems(locations_needing_update) :
           /\ PrimaryKey(loc) \in FileKeys(file_at_start)
           /\ file_at_start.data[PrimaryKey(loc)].air_temp = "num"
           /\ NewRecordOf(file.data[PrimaryKey(loc)], loc)
           /\ file.data[PrimaryKey(loc)].air_temp = "N/A"
           /\ file.data[PrimaryKey(loc)].wave_height = "num"

---------------------------------------------------------------------------
(* C29: fetch_greece_sea_temperature on its own. SpecSea takes the step of
   line 368 from every state of the module-level cache (empty, or a grid
   stored at some earlier hour), at every hour, for every way the request for
   the grid can end; call_in records that way. *)

\* "badjson": a 200 whose body response.json() rejects; "badrows": a 200
\* whose JSON has no table of rows, or rows of another shape
GridAnswers == {"200", "non200", "timeout", "badjson", "badrows"}

InitSea ==
    /\ csv_exists = TRUE
    /\ registry = RegistryF
    /\ file = AbsentFile
    /\ now \in 0..MaxTime
    /\ SEA_TEMP_CACHE \in {EmptySeaCache} \cup {[data |-> "grid", last_updated |-> Some(t)] : t \in 0..now}
    /\ mode = "loop" /\ pc = "sea"
    /\ batch_size = None /\ batch_number = None
    /\ locations_to_process = LocationsToProcess(registry, None, None)
    /\ sea_temp_data = "None"
    /\ existing_weather_data = EmptyCache
    /\ locations_needing_update = <<>>
    /\ worker = <<>>
    /\ new_weather_data = EmptyCache
    /\ weather_data = EmptyCache
    /\ http_requests = {}
    /\ file_at_start = file
    /\ call_in \in [answer : GridAnswers]
    /\ call_out = NoCall
    /\ seq_size = 0 /\ seq_next = 0 /\ seq_slices = <<>>

CallSea == FetchSea(call_in.answer)

NextSea == CallSea

SpecSea == InitSea /\ [][NextSea]_vars

\* the step of line 368 is taken
SeaReturns == pc = "sea" /\ pc' = "load"

\* C29: fetch_greece_sea_temperature never raises. On any failure (non-200
\* status, timeout, malformed payload) it returns the previously cached grid
\* whatever its age, or None when nothing was ever cached, and leaves the
\* cached grid and its last_updated unchanged; they change only on a
\* successful fetch, and together.
C29_SeaFetchNeverRaises ==
    [][SeaReturns =>
          /\ call_in.answer # "200" =>
                 /\ sea_temp_data' = SEA_TEMP_CACHE.data
                 /\ SEA_TEMP_CACHE' = SEA_TEMP_CACHE
          /\ SEA_TEMP_CACHE' # SEA_TEMP_CACHE =>
                 /\ call_in.answer = "200" /\ "noaa" \in http_requests'
                 /\ SEA_TEMP_CACHE' = [data |-> "grid", last_updated |-> Some(now)]
                 /\ sea_temp_data' = "grid"
          /\ (SEA_TEMP_CACHE'.data = "None") <=> ~SEA_TEMP_CACHE'.last_updated.some]_vars

\* a refresh failed on a malformed payload and the grid of 8 hours ago was returned
C29_Witness ==
    /\ pc = "load" /\ call_in.answer = "badrows"
    /\ "noaa" \in http_requests
    /\ sea_temp_data = "grid"
    /\ SEA_TEMP_CACHE.last_updated = Some(0) /\ now = MaxTime

\* nothing was ever cached and the request timed out: None is returned
C29_NoneWhenNeverCached ==
    /\ pc = "load" /\ call_in.answer = "timeout"
    /\ sea_temp_data = "None" /\ SEA_TEMP_CACHE = EmptySeaCache

---------------------------------------------------------------------------
(* C30: continuous_update. SpecContinuous runs the loop of lines 457-468 in
   one process: pc is "idle" at the top of the loop, then follows the run,
   then is "wait" (the sleep of line 461), "retry" (the sleep of line 468) or
   "stopped" (the loop was left). call_in is the interval in hours, call_out
   the last thing that happened to the loop. An exception can leave
   update_weather_cache at any step of a run (an unreadable registry, a cache
   file that is not a JSON object, a disk that refuses the write), and the
   user can interrupt at any time. The sleep of 5 minutes is shorter than the
   unit of time; the clock stops at MaxTime. *)

LoopEvent(e) == [event |-> e]

InitContinuous ==
    /\ csv_exists = TRUE
    /\ registry = RegistryF
    /\ file \in {AbsentFile, ValidFile(SeedCache)}
    /\ now = 0
    /\ SEA_TEMP_CACHE = EmptySeaCache
    /\ Idle
    /\ call_in \in TickSteps
    /\ call_out = LoopEvent("started")
    /\ seq_size = 0 /\ seq_next = 0 /\ seq_slices = <<>>

\* the local variables of the run are gone
LocalsGone ==
    /\ batch_size' = None /\ batch_number' = None
    /\ locations_to_process' = <<>>
    /\ sea_temp_data' = "None"
    /\ existing_weather_data' = EmptyCache
    /\ locations_needing_update' = <<>>
    /\ worker' = <<>>
    /\ new_weather_data' = EmptyCache
    /\ weather_data' = EmptyCache
    /\ http_requests' = {}
    /\ file_at_start' = file

\* line 459: update_weather_cache() is called
TurnStarts == StartRun(None, None, "loop") /\ NoSeq

\* lines 459-461: the run returned; the loop sleeps for the interval
TurnReturns ==
    /\ pc = "done"
    /\ pc' = "wait"
    /\ call_out' = LoopEvent("returned")
    /\ LocalsGone
    /\ UNCHANGED <<disk, SEA_TEMP_CACHE, mode, call_in, seq_size, seq_next, seq_slices>>

\* a loop that an exception of the run ends
TurnRaisesAndEnds ==
    /\ Running
    /\ pc' = "stopped"
    /\ call_out' = LoopEvent("Exception")
    /\ LocalsGone
    /\ UNCHANGED <<disk, SEA_TEMP_CACHE, mode, call_in, seq_size, seq_next, seq_slices>>

\* lines 465-468: an exception left the run; it is logged and the loop sleeps
\* for 5 minutes
TurnRaises ==
    /\ Running
    /\ pc' = "retry"
    /\ call_out' = LoopEvent("Exception")
    /\ LocalsGone
    /\ UNCHANGED <<disk, SEA_TEMP_CACHE, mode, call_in, seq_size, seq_next, seq_slices>>

\* line 461 is over: back to the top of the loop
WaitOver ==
    /\ pc = "wait"
    /\ pc' = "idle"
    /\ now' = Min(now + call_in, MaxTime)
    /\ UNCHANGED <<csv_exists, registry, file, SEA_TEMP_CACHE, mode, locals, http_requests,
                   file_at_start, harness>>

\* line 468 is over: back to the top of the loop
RetryOver ==
    /\ pc = "retry"
    /\ pc' = "idle"
    /\ UNCHANGED <<disk, SEA_TEMP_CACHE, mode, locals, http_requests, file_at_start, harness>>

\* lines 462-464: Ctrl-C during the run or a sleep; the loop is left
KeyboardInterrupt ==
    /\ pc # "stopped"
    /\ pc' = "stopped"
    /\ call_out' = LoopEvent("KeyboardInterrupt")
    /\ UNCHANGED <<disk, SEA_TEMP_CACHE, mode, locals, http_requests, file_at_start,
                   call_in, seq_size, seq_next, seq_slices>>

NextContinuous ==
    \/ TurnStarts
    \/ Seas
    \/ LoadFilter
    \/ Completes
    \/ MergeStep
    \/ SaveOpen
    \/ SaveDump
    \/ TurnReturns
    \/ TurnRaises
    \/ WaitOver
    \/ RetryOver
    \/ KeyboardInterrupt

\* every sleep ends and every step of a run that nothing prevents is taken
SpecContinuous ==
    /\ InitContinuous /\ [][NextContinuous]_vars
    /\ WF_vars(TurnStarts) /\ WF_vars(Seas) /\ WF_vars(LoadFilter) /\ WF_vars(Completes)
    /\ WF_vars(MergeStep) /\ WF_vars(SaveOpen) /\ WF_vars(SaveDump)
    /\ WF_vars(TurnReturns) /\ WF_vars(WaitOver) /\ WF_vars(RetryOver)

\* a run is being attempted
Attempting == pc = "sea"

\* C30: an exception raised by a run never ends continuous_update; after such
\* an error another run is always attempted (after the 5-minute wait), after
\* a normal run another run is always attempted (after the interval), and
\* only a keyboard interrupt terminates the loop.
C30_LoopSurvivesErrors ==
    /\ [][/\ pc' = "stopped" => call_out'.event = "KeyboardInterrupt"
          /\ (Running /\ pc' \notin {"sea", "load", "fetch", "save", "dump", "done"}) =>
                 \/ pc' = "retry" /\ call_out'.event = "Exception"
                 \/ pc' = "stopped"
          /\ (pc = "retry" /\ pc' # "stopped") => (pc' = "idle" /\ now' = now)
          /\ (pc = "wait" /\ pc' # "stopped") => (pc' = "idle" /\ now' = Min(now + call_in, MaxTime))]_vars
    /\ (pc = "retry") ~> (Attempting \/ pc = "stopped")
    /\ (pc = "wait") ~> (Attempting \/ pc = "stopped")

\* a run is attempted after the run before it raised
C30_Witness == Attempting /\ call_out.event = "Exception"

\* a run is attempted after the run before it returned and the interval passed
C30_NextTurn == Attempting /\ call_out.event = "returned" /\ now >= call_in

====
